---- MODULE Spec2Model ----
(***************************************************************************)
(* Model of the dev-events data layer:                                     *)
(*   - lib/mongodb  : connectToDatabase and its process-wide cache         *)
(*   - event model  : schema validation, slugify, normalizeDate,           *)
(*                    normalizeTime, the pre('save') hook, the unique      *)
(*                    index on slug                                        *)
(*   - booking model: isValidEmail, the pre('save') hook with its          *)
(*                    Event.exists query                                   *)
(* Strings are sequences of UTF-16 code units, so that trimming,           *)
(* lower-casing and the regular expressions are computed, not assumed.     *)
(***************************************************************************)
EXTENDS Integers, Sequences, FiniteSets, TLC

VARIABLES
  conn,          \* cached.conn: 0 is null, otherwise a connection handle
  promise,       \* cached.promise: 0 is null, otherwise the id of an attempt
  attempts,      \* attempts[a]: state of the a-th mongoose.connect promise
  waiters,       \* waiters[a]: calls suspended on attempt a, in arrival order
  jobs,          \* the microtask queue of the process, head first
  callPc,        \* position of each connectToDatabase call
  callAwait,     \* the attempt a call is suspended on (0: none)
  callResult,    \* handle returned, or id of the attempt whose error was thrown
  callInitiated, \* history: the call invoked mongoose.connect
  callSeen,      \* history: handles already returned when the call started
  everFailed,    \* history: some attempt has been rejected
  events,        \* the events collection: _id -> stored Event document
  bookings,      \* the bookings collection, in insertion order
  nextEventId,   \* the next unused Event _id
  nWrites,       \* number of save() and deleteOne() calls made so far
  evOp,          \* per event writer: the save in progress
  bkOp,          \* per booking writer: the save in progress
  last,          \* outcome of the latest step of a write
  titleIn,       \* slugify: the title handed to the hook
  slugOut,       \* slugify: the slug derived from titleIn
  timeIn,        \* normalizeTime: the time handed to the hook
  timeOut        \* normalizeTime: its result

connVars == <<conn, promise, attempts, waiters, jobs, callPc, callAwait,
              callResult, callInitiated, callSeen, everFailed>>

storeVars == <<events, bookings, nextEventId, nWrites, evOp, bkOp, last>>

pureVars == <<titleIn, slugOut, timeIn, timeOut>>

vars == <<connVars, storeVars, pureVars>>

\* ------------------------------------------------------------------------
\* Bounds
\* ------------------------------------------------------------------------
NumCalls == 5
MaxAttempts == 3
MaxEvents == 2
MaxWrites == 4
MaxTitleLen == 4
MaxTimeLen == 8
MaxBookings == 1
NumEventWriters == 2
NumBookingWriters == 1
MaxZoneSeconds == 89999

CallIds == 1..NumCalls

EventIds == 1..MaxEvents
EventWriters == 1..NumEventWriters
BookingWriters == 1..NumBookingWriters

Idle == [kind |-> "idle"]

NotRun == [ok |-> FALSE, error |-> "not run"]

\* No title and no time under normalisation.
PureIdle ==
  /\ titleIn = <<>>
  /\ slugOut = NotRun
  /\ timeIn = <<>>
  /\ timeOut = NotRun

\* Both collections empty, no write in progress.
StoreIdle ==
  /\ events = <<>>
  /\ bookings = <<>>
  /\ nextEventId = 1
  /\ nWrites = 0
  /\ evOp = [w \in EventWriters |-> Idle]
  /\ bkOp = [w \in BookingWriters |-> Idle]
  /\ last = [op |-> "none", status |-> "none"]

\* ------------------------------------------------------------------------
\* Connection manager
\* ------------------------------------------------------------------------

\* The value a fulfilled mongoose.connect promise resolves to: the Mongoose
\* instance the module imports, the same object for every attempt (0 stands
\* for null).
Handle(a) == 1

\* if (!cached) { cached = { conn: null, promise: null } }
CachedInit ==
  /\ conn = 0
  /\ promise = 0

\* No call made yet.
ConnIdle ==
  /\ CachedInit
  /\ attempts = <<>>
  /\ waiters = <<>>
  /\ jobs = <<>>
  /\ callPc = [c \in CallIds |-> "idle"]
  /\ callAwait = [c \in CallIds |-> 0]
  /\ callResult = [c \in CallIds |-> 0]
  /\ callInitiated = [c \in CallIds |-> FALSE]
  /\ callSeen = [c \in CallIds |-> {}]
  /\ everFailed = FALSE

ConnInit ==
  /\ ConnIdle
  /\ StoreIdle
  /\ PureIdle

\* Handles returned so far by completed calls.
ReturnedHandles == {callResult[c] : c \in {d \in CallIds : callPc[d] = "returned"}}

\* The reactions of the calls in ws, in order, as microtasks.
RECURSIVE ResumeJobs(_)
ResumeJobs(ws) ==
  IF ws = <<>> THEN <<>>
  ELSE <<[kind |-> "resume", call |-> Head(ws)]>> \o ResumeJobs(Tail(ws))

\* Some server code (an API route, a server component) reaches the point where
\* its continuation will invoke connectToDatabase.
ScheduleCall(c) ==
  /\ callPc[c] = "idle"
  /\ callPc' = [callPc EXCEPT ![c] = "scheduled"]
  /\ jobs' = Append(jobs, [kind |-> "call", call |-> c])
  /\ UNCHANGED <<conn, promise, attempts, waiters, callAwait, callResult,
                 callInitiated, callSeen, everFailed, storeVars, pureVars>>

\* if (cached?.conn) return cached.conn
HasCachedHandleNever(cn) == FALSE

HasCachedHandle(cn) == cn # 0

\* if (!cached?.promise): a call creates an attempt only when none is cached.
NeedsNewAttemptAlways(p) == TRUE

NeedsNewAttempt(p) == p = 0

\* await cached.promise on attempt a by call c: the call is suspended; when the
\* promise is already settled its reaction is queued at once.
AwaitAttempt(c, a, atts, ws, js) ==
  /\ callAwait' = [callAwait EXCEPT ![c] = a]
  /\ callPc' = [callPc EXCEPT ![c] = "awaiting"]
  /\ IF atts[a] = "pending"
       THEN /\ waiters' = [ws EXCEPT ![a] = Append(@, c)]
            /\ jobs' = js
       ELSE /\ waiters' = ws
            /\ jobs' = Append(js, [kind |-> "resume", call |-> c])

\* connectToDatabase up to its first suspension: the cached-handle return,
\* the creation of the attempt, and the await on cached.promise.
connectToDatabase(c) ==
  /\ jobs # <<>>
  /\ Head(jobs) = [kind |-> "call", call |-> c]
  /\ callSeen' = [callSeen EXCEPT ![c] = ReturnedHandles]
  /\ IF HasCachedHandle(conn)
       THEN /\ callPc' = [callPc EXCEPT ![c] = "returned"]
            /\ callResult' = [callResult EXCEPT ![c] = conn]
            /\ jobs' = Tail(jobs)
            /\ UNCHANGED <<conn, promise, attempts, waiters, callAwait,
                           callInitiated>>
       ELSE IF NeedsNewAttempt(promise)
         THEN /\ Len(attempts) < MaxAttempts
              /\ attempts' = Append(attempts, "pending")
              /\ promise' = Len(attempts) + 1
              /\ callInitiated' = [callInitiated EXCEPT ![c] = TRUE]
              /\ AwaitAttempt(c, promise', attempts', Append(waiters, <<>>),
                              Tail(jobs))
              /\ UNCHANGED <<conn, callResult>>
         ELSE /\ AwaitAttempt(c, promise, attempts, waiters, Tail(jobs))
              /\ UNCHANGED <<conn, promise, attempts, callResult, callInitiated>>
  /\ UNCHANGED <<everFailed, storeVars, pureVars>>

\* The promise returned by mongoose.connect is fulfilled: the reactions of the
\* calls suspended on it are queued in arrival order.
AttemptSucceeds(a) ==
  /\ a \in 1..Len(attempts)
  /\ attempts[a] = "pending"
  /\ attempts' = [attempts EXCEPT ![a] = "resolved"]
  /\ jobs' = jobs \o ResumeJobs(waiters[a])
  /\ waiters' = [waiters EXCEPT ![a] = <<>>]
  /\ UNCHANGED <<conn, promise, callPc, callAwait, callResult, callInitiated,
                 callSeen, everFailed, storeVars, pureVars>>

\* The promise returned by mongoose.connect is rejected.
AttemptFails(a) ==
  /\ a \in 1..Len(attempts)
  /\ attempts[a] = "pending"
  /\ attempts' = [attempts EXCEPT ![a] = "rejected"]
  /\ jobs' = jobs \o ResumeJobs(waiters[a])
  /\ waiters' = [waiters EXCEPT ![a] = <<>>]
  /\ everFailed' = TRUE
  /\ UNCHANGED <<conn, promise, callPc, callAwait, callResult, callInitiated,
                 callSeen, storeVars, pureVars>>

\* After a rejection the catch block resets the cached promise, whichever
\* attempt it holds by then.
PromiseAfterFailure(p) == 0

\* try { cached.conn = await cached.promise } ... return cached.conn
ResumeFulfilled(c) ==
  /\ jobs # <<>>
  /\ Head(jobs) = [kind |-> "resume", call |-> c]
  /\ attempts[callAwait[c]] = "resolved"
  /\ conn' = Handle(callAwait[c])
  /\ callResult' = [callResult EXCEPT ![c] = conn']
  /\ callPc' = [callPc EXCEPT ![c] = "returned"]
  /\ jobs' = Tail(jobs)
  /\ UNCHANGED <<promise, attempts, waiters, callAwait, callInitiated,
                 callSeen, everFailed, storeVars, pureVars>>

\* catch (error) { cached.promise = null; throw error }
ResumeRejected(c) ==
  /\ jobs # <<>>
  /\ Head(jobs) = [kind |-> "resume", call |-> c]
  /\ attempts[callAwait[c]] = "rejected"
  /\ promise' = PromiseAfterFailure(promise)
  /\ callResult' = [callResult EXCEPT ![c] = callAwait[c]]
  /\ callPc' = [callPc EXCEPT ![c] = "threw"]
  /\ jobs' = Tail(jobs)
  /\ UNCHANGED <<conn, attempts, waiters, callAwait, callInitiated, callSeen,
                 everFailed, storeVars, pureVars>>

ConnNext ==
  \/ \E c \in CallIds : ScheduleCall(c)
  \/ \E c \in CallIds : connectToDatabase(c)
  \/ \E a \in 1..MaxAttempts : AttemptSucceeds(a)
  \/ \E a \in 1..MaxAttempts : AttemptFails(a)
  \/ \E c \in CallIds : ResumeFulfilled(c)
  \/ \E c \in CallIds : ResumeRejected(c)

SpecConn == ConnInit /\ [][ConnNext]_vars

\* ------------------------------------------------------------------------
\* Strings
\* ------------------------------------------------------------------------
\* A string is the sequence of its UTF-16 code units: <<65, 32, 98>> is "A b".

\* White space and line terminators: \s of the regular expressions and the
\* characters String.prototype.trim drops. U+0009 to U+000D, the space,
\* U+00A0, U+1680, U+2000 to U+200A, U+2028, U+2029, U+202F, U+205F, U+3000
\* and U+FEFF.
WhiteSpace ==
  (9..13) \cup {32, 160, 5760} \cup (8192..8202)
    \cup {8232, 8233, 8239, 8287, 12288, 65279}
IsSpace(ch) == ch \in WhiteSpace

\* \d
IsDigit(ch) == ch \in 48..57
\* a-z
IsLower(ch) == ch \in 97..122

\* All strings over alphabet of length at most n.
StringsUpTo(alphabet, n) == UNION {[1..k -> alphabet] : k \in 0..n}

RECURSIVE TrimStart(_)
TrimStart(s) ==
  IF s # <<>> /\ IsSpace(Head(s)) THEN TrimStart(Tail(s)) ELSE s

RECURSIVE TrimEnd(_)
TrimEnd(s) ==
  IF s # <<>> /\ IsSpace(s[Len(s)]) THEN TrimEnd(SubSeq(s, 1, Len(s) - 1)) ELSE s

\* String.prototype.trim
Trim(s) == TrimEnd(TrimStart(s))

\* A high surrogate at position i and a low surrogate after it are the two
\* code units of one code point.
IsSurrogatePair(s, i) ==
  /\ i >= 1
  /\ i < Len(s)
  /\ s[i] \in 55296..56319
  /\ s[i + 1] \in 56320..57343

\* The code point that begins at position i.
CodePointAt(s, i) ==
  IF IsSurrogatePair(s, i)
    THEN 65536 + (s[i] - 55296) * 1024 + (s[i + 1] - 56320)
    ELSE s[i]

\* The code units of a code point.
CodeUnits(cp) ==
  IF cp < 65536 THEN <<cp>>
  ELSE <<55296 + ((cp - 65536) \div 1024), 56320 + ((cp - 65536) % 1024)>>

\* The lower-case mappings of Unicode 17 above U+007F: <<first, last, step,
\* distance>> takes every step-th code point from first to last to the code
\* point `distance` after it.
LowerCaseRanges ==
  <<<<192, 214, 1, 32>>, <<216, 222, 1, 32>>, <<256, 302, 2, 1>>,
    <<306, 310, 2, 1>>, <<313, 327, 2, 1>>, <<330, 374, 2, 1>>,
    <<376, 376, 1, -121>>, <<377, 381, 2, 1>>, <<385, 385, 1, 210>>,
    <<386, 388, 2, 1>>, <<390, 390, 1, 206>>, <<391, 391, 1, 1>>,
    <<393, 394, 1, 205>>, <<395, 395, 1, 1>>, <<398, 398, 1, 79>>,
    <<399, 399, 1, 202>>, <<400, 400, 1, 203>>, <<401, 401, 1, 1>>,
    <<403, 403, 1, 205>>, <<404, 404, 1, 207>>, <<406, 406, 1, 211>>,
    <<407, 407, 1, 209>>, <<408, 408, 1, 1>>, <<412, 412, 1, 211>>,
    <<413, 413, 1, 213>>, <<415, 415, 1, 214>>, <<416, 420, 2, 1>>,
    <<422, 422, 1, 218>>, <<423, 423, 1, 1>>, <<425, 425, 1, 218>>,
    <<428, 428, 1, 1>>, <<430, 430, 1, 218>>, <<431, 431, 1, 1>>,
    <<433, 434, 1, 217>>, <<435, 437, 2, 1>>, <<439, 439, 1, 219>>,
    <<440, 440, 1, 1>>, <<444, 444, 1, 1>>, <<452, 452, 1, 2>>,
    <<453, 453, 1, 1>>, <<455, 455, 1, 2>>, <<456, 456, 1, 1>>,
    <<458, 458, 1, 2>>, <<459, 475, 2, 1>>, <<478, 494, 2, 1>>,
    <<497, 497, 1, 2>>, <<498, 500, 2, 1>>, <<502, 502, 1, -97>>,
    <<503, 503, 1, -56>>, <<504, 542, 2, 1>>, <<544, 544, 1, -130>>,
    <<546, 562, 2, 1>>, <<570, 570, 1, 10795>>, <<571, 571, 1, 1>>,
    <<573, 573, 1, -163>>, <<574, 574, 1, 10792>>, <<577, 577, 1, 1>>,
    <<579, 579, 1, -195>>, <<580, 580, 1, 69>>, <<581, 581, 1, 71>>,
    <<582, 590, 2, 1>>, <<880, 882, 2, 1>>, <<886, 886, 1, 1>>,
    <<895, 895, 1, 116>>, <<902, 902, 1, 38>>, <<904, 906, 1, 37>>,
    <<908, 908, 1, 64>>, <<910, 911, 1, 63>>, <<913, 929, 1, 32>>,
    <<931, 939, 1, 32>>, <<975, 975, 1, 8>>, <<984, 1006, 2, 1>>,
    <<1012, 1012, 1, -60>>, <<1015, 1015, 1, 1>>, <<1017, 1017, 1, -7>>,
    <<1018, 1018, 1, 1>>, <<1021, 1023, 1, -130>>, <<1024, 1039, 1, 80>>,
    <<1040, 1071, 1, 32>>, <<1120, 1152, 2, 1>>, <<1162, 1214, 2, 1>>,
    <<1216, 1216, 1, 15>>, <<1217, 1229, 2, 1>>, <<1232, 1326, 2, 1>>,
    <<1329, 1366, 1, 48>>, <<4256, 4293, 1, 7264>>, <<4295, 4295, 1, 7264>>,
    <<4301, 4301, 1, 7264>>, <<5024, 5103, 1, 38864>>, <<5104, 5109, 1, 8>>,
    <<7305, 7305, 1, 1>>, <<7312, 7354, 1, -3008>>, <<7357, 7359, 1, -3008>>,
    <<7680, 7828, 2, 1>>, <<7838, 7838, 1, -7615>>, <<7840, 7934, 2, 1>>,
    <<7944, 7951, 1, -8>>, <<7960, 7965, 1, -8>>, <<7976, 7983, 1, -8>>,
    <<7992, 7999, 1, -8>>, <<8008, 8013, 1, -8>>, <<8025, 8031, 2, -8>>,
    <<8040, 8047, 1, -8>>, <<8072, 8079, 1, -8>>, <<8088, 8095, 1, -8>>,
    <<8104, 8111, 1, -8>>, <<8120, 8121, 1, -8>>, <<8122, 8123, 1, -74>>,
    <<8124, 8124, 1, -9>>, <<8136, 8139, 1, -86>>, <<8140, 8140, 1, -9>>,
    <<8152, 8153, 1, -8>>, <<8154, 8155, 1, -100>>, <<8168, 8169, 1, -8>>,
    <<8170, 8171, 1, -112>>, <<8172, 8172, 1, -7>>, <<8184, 8185, 1, -128>>,
    <<8186, 8187, 1, -126>>, <<8188, 8188, 1, -9>>, <<8486, 8486, 1, -7517>>,
    <<8490, 8490, 1, -8383>>, <<8491, 8491, 1, -8262>>, <<8498, 8498, 1, 28>>,
    <<8544, 8559, 1, 16>>, <<8579, 8579, 1, 1>>, <<9398, 9423, 1, 26>>,
    <<11264, 11311, 1, 48>>, <<11360, 11360, 1, 1>>,
    <<11362, 11362, 1, -10743>>, <<11363, 11363, 1, -3814>>,
    <<11364, 11364, 1, -10727>>, <<11367, 11371, 2, 1>>,
    <<11373, 11373, 1, -10780>>, <<11374, 11374, 1, -10749>>,
    <<11375, 11375, 1, -10783>>, <<11376, 11376, 1, -10782>>,
    <<11378, 11378, 1, 1>>, <<11381, 11381, 1, 1>>,
    <<11390, 11391, 1, -10815>>, <<11392, 11490, 2, 1>>,
    <<11499, 11501, 2, 1>>, <<11506, 11506, 1, 1>>, <<42560, 42604, 2, 1>>,
    <<42624, 42650, 2, 1>>, <<42786, 42798, 2, 1>>, <<42802, 42862, 2, 1>>,
    <<42873, 42875, 2, 1>>, <<42877, 42877, 1, -35332>>,
    <<42878, 42886, 2, 1>>, <<42891, 42891, 1, 1>>,
    <<42893, 42893, 1, -42280>>, <<42896, 42898, 2, 1>>,
    <<42902, 42920, 2, 1>>, <<42922, 42922, 1, -42308>>,
    <<42923, 42923, 1, -42319>>, <<42924, 42924, 1, -42315>>,
    <<42925, 42925, 1, -42305>>, <<42926, 42926, 1, -42308>>,
    <<42928, 42928, 1, -42258>>, <<42929, 42929, 1, -42282>>,
    <<42930, 42930, 1, -42261>>, <<42931, 42931, 1, 928>>,
    <<42932, 42946, 2, 1>>, <<42948, 42948, 1, -48>>,
    <<42949, 42949, 1, -42307>>, <<42950, 42950, 1, -35384>>,
    <<42951, 42953, 2, 1>>, <<42955, 42955, 1, -42343>>,
    <<42956, 42970, 2, 1>>, <<42972, 42972, 1, -42561>>,
    <<42997, 42997, 1, 1>>, <<65313, 65338, 1, 32>>, <<66560, 66599, 1, 40>>,
    <<66736, 66771, 1, 40>>, <<66928, 66938, 1, 39>>, <<66940, 66954, 1, 39>>,
    <<66956, 66962, 1, 39>>, <<66964, 66965, 1, 39>>, <<68736, 68786, 1, 64>>,
    <<68944, 68965, 1, 32>>, <<71840, 71871, 1, 32>>, <<93760, 93791, 1, 32>>,
    <<93856, 93880, 1, 27>>, <<125184, 125217, 1, 34>>>>

\* The code points that count as cased letters before or after a capital
\* sigma, <<first, last>>: Cased and not Case_Ignorable.
CasedRanges ==
  <<<<65, 90>>, <<97, 122>>, <<170, 170>>, <<181, 181>>, <<186, 186>>,
    <<192, 214>>, <<216, 246>>, <<248, 442>>, <<444, 447>>, <<452, 659>>,
    <<662, 687>>, <<880, 883>>, <<886, 887>>, <<891, 893>>, <<895, 895>>,
    <<902, 902>>, <<904, 906>>, <<908, 908>>, <<910, 929>>, <<931, 1013>>,
    <<1015, 1153>>, <<1162, 1327>>, <<1329, 1366>>, <<1376, 1416>>,
    <<4256, 4293>>, <<4295, 4295>>, <<4301, 4301>>, <<4304, 4346>>,
    <<4349, 4351>>, <<5024, 5109>>, <<5112, 5117>>, <<7296, 7306>>,
    <<7312, 7354>>, <<7357, 7359>>, <<7424, 7467>>, <<7531, 7543>>,
    <<7545, 7578>>, <<7680, 7957>>, <<7960, 7965>>, <<7968, 8005>>,
    <<8008, 8013>>, <<8016, 8023>>, <<8025, 8025>>, <<8027, 8027>>,
    <<8029, 8029>>, <<8031, 8061>>, <<8064, 8116>>, <<8118, 8124>>,
    <<8126, 8126>>, <<8130, 8132>>, <<8134, 8140>>, <<8144, 8147>>,
    <<8150, 8155>>, <<8160, 8172>>, <<8178, 8180>>, <<8182, 8188>>,
    <<8450, 8450>>, <<8455, 8455>>, <<8458, 8467>>, <<8469, 8469>>,
    <<8473, 8477>>, <<8484, 8484>>, <<8486, 8486>>, <<8488, 8488>>,
    <<8490, 8493>>, <<8495, 8500>>, <<8505, 8505>>, <<8508, 8511>>,
    <<8517, 8521>>, <<8526, 8526>>, <<8544, 8575>>, <<8579, 8580>>,
    <<9398, 9449>>, <<11264, 11387>>, <<11390, 11492>>, <<11499, 11502>>,
    <<11506, 11507>>, <<11520, 11557>>, <<11559, 11559>>, <<11565, 11565>>,
    <<42560, 42605>>, <<42624, 42651>>, <<42786, 42863>>, <<42865, 42887>>,
    <<42891, 42894>>, <<42896, 42972>>, <<42997, 42998>>, <<43002, 43002>>,
    <<43824, 43866>>, <<43872, 43880>>, <<43888, 43967>>, <<64256, 64262>>,
    <<64275, 64279>>, <<65313, 65338>>, <<65345, 65370>>, <<66560, 66639>>,
    <<66736, 66771>>, <<66776, 66811>>, <<66928, 66938>>, <<66940, 66954>>,
    <<66956, 66962>>, <<66964, 66965>>, <<66967, 66977>>, <<66979, 66993>>,
    <<66995, 67001>>, <<67003, 67004>>, <<68736, 68786>>, <<68800, 68850>>,
    <<68944, 68965>>, <<68976, 68997>>, <<71840, 71903>>, <<93760, 93823>>,
    <<93856, 93880>>, <<93883, 93907>>, <<119808, 119892>>,
    <<119894, 119964>>, <<119966, 119967>>, <<119970, 119970>>,
    <<119973, 119974>>, <<119977, 119980>>, <<119982, 119993>>,
    <<119995, 119995>>, <<119997, 120003>>, <<120005, 120069>>,
    <<120071, 120074>>, <<120077, 120084>>, <<120086, 120092>>,
    <<120094, 120121>>, <<120123, 120126>>, <<120128, 120132>>,
    <<120134, 120134>>, <<120138, 120144>>, <<120146, 120485>>,
    <<120488, 120512>>, <<120514, 120538>>, <<120540, 120570>>,
    <<120572, 120596>>, <<120598, 120628>>, <<120630, 120654>>,
    <<120656, 120686>>, <<120688, 120712>>, <<120714, 120744>>,
    <<120746, 120770>>, <<120772, 120779>>, <<122624, 122633>>,
    <<122635, 122654>>, <<122661, 122666>>, <<125184, 125251>>,
    <<127280, 127305>>, <<127312, 127337>>, <<127344, 127369>>>>

\* The Case_Ignorable code points, <<first, last>>.
CaseIgnorableRanges ==
  <<<<39, 39>>, <<46, 46>>, <<58, 58>>, <<94, 94>>, <<96, 96>>, <<168, 168>>,
    <<173, 173>>, <<175, 175>>, <<180, 180>>, <<183, 184>>, <<688, 879>>,
    <<884, 885>>, <<890, 890>>, <<900, 901>>, <<903, 903>>, <<1155, 1161>>,
    <<1369, 1369>>, <<1375, 1375>>, <<1425, 1469>>, <<1471, 1471>>,
    <<1473, 1474>>, <<1476, 1477>>, <<1479, 1479>>, <<1524, 1524>>,
    <<1536, 1541>>, <<1552, 1562>>, <<1564, 1564>>, <<1600, 1600>>,
    <<1611, 1631>>, <<1648, 1648>>, <<1750, 1757>>, <<1759, 1768>>,
    <<1770, 1773>>, <<1807, 1807>>, <<1809, 1809>>, <<1840, 1866>>,
    <<1958, 1968>>, <<2027, 2037>>, <<2042, 2042>>, <<2045, 2045>>,
    <<2070, 2093>>, <<2137, 2139>>, <<2184, 2184>>, <<2192, 2193>>,
    <<2199, 2207>>, <<2249, 2306>>, <<2362, 2362>>, <<2364, 2364>>,
    <<2369, 2376>>, <<2381, 2381>>, <<2385, 2391>>, <<2402, 2403>>,
    <<2417, 2417>>, <<2433, 2433>>, <<2492, 2492>>, <<2497, 2500>>,
    <<2509, 2509>>, <<2530, 2531>>, <<2558, 2558>>, <<2561, 2562>>,
    <<2620, 2620>>, <<2625, 2626>>, <<2631, 2632>>, <<2635, 2637>>,
    <<2641, 2641>>, <<2672, 2673>>, <<2677, 2677>>, <<2689, 2690>>,
    <<2748, 2748>>, <<2753, 2757>>, <<2759, 2760>>, <<2765, 2765>>,
    <<2786, 2787>>, <<2810, 2815>>, <<2817, 2817>>, <<2876, 2876>>,
    <<2879, 2879>>, <<2881, 2884>>, <<2893, 2893>>, <<2901, 2902>>,
    <<2914, 2915>>, <<2946, 2946>>, <<3008, 3008>>, <<3021, 3021>>,
    <<3072, 3072>>, <<3076, 3076>>, <<3132, 3132>>, <<3134, 3136>>,
    <<3142, 3144>>, <<3146, 3149>>, <<3157, 3158>>, <<3170, 3171>>,
    <<3201, 3201>>, <<3260, 3260>>, <<3263, 3263>>, <<3270, 3270>>,
    <<3276, 3277>>, <<3298, 3299>>, <<3328, 3329>>, <<3387, 3388>>,
    <<3393, 3396>>, <<3405, 3405>>, <<3426, 3427>>, <<3457, 3457>>,
    <<3530, 3530>>, <<3538, 3540>>, <<3542, 3542>>, <<3633, 3633>>,
    <<3636, 3642>>, <<3654, 3662>>, <<3761, 3761>>, <<3764, 3772>>,
    <<3782, 3782>>, <<3784, 3790>>, <<3864, 3865>>, <<3893, 3893>>,
    <<3895, 3895>>, <<3897, 3897>>, <<3953, 3966>>, <<3968, 3972>>,
    <<3974, 3975>>, <<3981, 3991>>, <<3993, 4028>>, <<4038, 4038>>,
    <<4141, 4144>>, <<4146, 4151>>, <<4153, 4154>>, <<4157, 4158>>,
    <<4184, 4185>>, <<4190, 4192>>, <<4209, 4212>>, <<4226, 4226>>,
    <<4229, 4230>>, <<4237, 4237>>, <<4253, 4253>>, <<4348, 4348>>,
    <<4957, 4959>>, <<5906, 5908>>, <<5938, 5939>>, <<5970, 5971>>,
    <<6002, 6003>>, <<6068, 6069>>, <<6071, 6077>>, <<6086, 6086>>,
    <<6089, 6099>>, <<6103, 6103>>, <<6109, 6109>>, <<6155, 6159>>,
    <<6211, 6211>>, <<6277, 6278>>, <<6313, 6313>>, <<6432, 6434>>,
    <<6439, 6440>>, <<6450, 6450>>, <<6457, 6459>>, <<6679, 6680>>,
    <<6683, 6683>>, <<6742, 6742>>, <<6744, 6750>>, <<6752, 6752>>,
    <<6754, 6754>>, <<6757, 6764>>, <<6771, 6780>>, <<6783, 6783>>,
    <<6823, 6823>>, <<6832, 6877>>, <<6880, 6891>>, <<6912, 6915>>,
    <<6964, 6964>>, <<6966, 6970>>, <<6972, 6972>>, <<6978, 6978>>,
    <<7019, 7027>>, <<7040, 7041>>, <<7074, 7077>>, <<7080, 7081>>,
    <<7083, 7085>>, <<7142, 7142>>, <<7144, 7145>>, <<7149, 7149>>,
    <<7151, 7153>>, <<7212, 7219>>, <<7222, 7223>>, <<7288, 7293>>,
    <<7376, 7378>>, <<7380, 7392>>, <<7394, 7400>>, <<7405, 7405>>,
    <<7412, 7412>>, <<7416, 7417>>, <<7468, 7530>>, <<7544, 7544>>,
    <<7579, 7679>>, <<8125, 8125>>, <<8127, 8129>>, <<8141, 8143>>,
    <<8157, 8159>>, <<8173, 8175>>, <<8189, 8190>>, <<8203, 8207>>,
    <<8216, 8217>>, <<8228, 8228>>, <<8231, 8231>>, <<8234, 8238>>,
    <<8288, 8292>>, <<8294, 8303>>, <<8305, 8305>>, <<8319, 8319>>,
    <<8336, 8348>>, <<8400, 8432>>, <<11388, 11389>>, <<11503, 11505>>,
    <<11631, 11631>>, <<11647, 11647>>, <<11744, 11775>>, <<11823, 11823>>,
    <<12293, 12293>>, <<12330, 12333>>, <<12337, 12341>>, <<12347, 12347>>,
    <<12441, 12446>>, <<12540, 12542>>, <<40981, 40981>>, <<42232, 42237>>,
    <<42508, 42508>>, <<42607, 42610>>, <<42612, 42621>>, <<42623, 42623>>,
    <<42652, 42655>>, <<42736, 42737>>, <<42752, 42785>>, <<42864, 42864>>,
    <<42888, 42890>>, <<42993, 42996>>, <<43000, 43001>>, <<43010, 43010>>,
    <<43014, 43014>>, <<43019, 43019>>, <<43045, 43046>>, <<43052, 43052>>,
    <<43204, 43205>>, <<43232, 43249>>, <<43263, 43263>>, <<43302, 43309>>,
    <<43335, 43345>>, <<43392, 43394>>, <<43443, 43443>>, <<43446, 43449>>,
    <<43452, 43453>>, <<43471, 43471>>, <<43493, 43494>>, <<43561, 43566>>,
    <<43569, 43570>>, <<43573, 43574>>, <<43587, 43587>>, <<43596, 43596>>,
    <<43632, 43632>>, <<43644, 43644>>, <<43696, 43696>>, <<43698, 43700>>,
    <<43703, 43704>>, <<43710, 43711>>, <<43713, 43713>>, <<43741, 43741>>,
    <<43756, 43757>>, <<43763, 43764>>, <<43766, 43766>>, <<43867, 43871>>,
    <<43881, 43883>>, <<44005, 44005>>, <<44008, 44008>>, <<44013, 44013>>,
    <<64286, 64286>>, <<64434, 64450>>, <<65024, 65039>>, <<65043, 65043>>,
    <<65056, 65071>>, <<65106, 65106>>, <<65109, 65109>>, <<65279, 65279>>,
    <<65287, 65287>>, <<65294, 65294>>, <<65306, 65306>>, <<65342, 65342>>,
    <<65344, 65344>>, <<65392, 65392>>, <<65438, 65439>>, <<65507, 65507>>,
    <<65529, 65531>>, <<66045, 66045>>, <<66272, 66272>>, <<66422, 66426>>,
    <<67456, 67461>>, <<67463, 67504>>, <<67506, 67514>>, <<68097, 68099>>,
    <<68101, 68102>>, <<68108, 68111>>, <<68152, 68154>>, <<68159, 68159>>,
    <<68325, 68326>>, <<68900, 68903>>, <<68942, 68942>>, <<68969, 68973>>,
    <<68975, 68975>>, <<69291, 69292>>, <<69317, 69317>>, <<69370, 69375>>,
    <<69446, 69456>>, <<69506, 69509>>, <<69633, 69633>>, <<69688, 69702>>,
    <<69744, 69744>>, <<69747, 69748>>, <<69759, 69761>>, <<69811, 69814>>,
    <<69817, 69818>>, <<69821, 69821>>, <<69826, 69826>>, <<69837, 69837>>,
    <<69888, 69890>>, <<69927, 69931>>, <<69933, 69940>>, <<70003, 70003>>,
    <<70016, 70017>>, <<70070, 70078>>, <<70089, 70092>>, <<70095, 70095>>,
    <<70191, 70193>>, <<70196, 70196>>, <<70198, 70199>>, <<70206, 70206>>,
    <<70209, 70209>>, <<70367, 70367>>, <<70371, 70378>>, <<70400, 70401>>,
    <<70459, 70460>>, <<70464, 70464>>, <<70502, 70508>>, <<70512, 70516>>,
    <<70587, 70592>>, <<70606, 70606>>, <<70608, 70608>>, <<70610, 70610>>,
    <<70625, 70626>>, <<70712, 70719>>, <<70722, 70724>>, <<70726, 70726>>,
    <<70750, 70750>>, <<70835, 70840>>, <<70842, 70842>>, <<70847, 70848>>,
    <<70850, 70851>>, <<71090, 71093>>, <<71100, 71101>>, <<71103, 71104>>,
    <<71132, 71133>>, <<71219, 71226>>, <<71229, 71229>>, <<71231, 71232>>,
    <<71339, 71339>>, <<71341, 71341>>, <<71344, 71349>>, <<71351, 71351>>,
    <<71453, 71453>>, <<71455, 71455>>, <<71458, 71461>>, <<71463, 71467>>,
    <<71727, 71735>>, <<71737, 71738>>, <<71995, 71996>>, <<71998, 71998>>,
    <<72003, 72003>>, <<72148, 72151>>, <<72154, 72155>>, <<72160, 72160>>,
    <<72193, 72202>>, <<72243, 72248>>, <<72251, 72254>>, <<72263, 72263>>,
    <<72273, 72278>>, <<72281, 72283>>, <<72330, 72342>>, <<72344, 72345>>,
    <<72544, 72544>>, <<72546, 72548>>, <<72550, 72550>>, <<72752, 72758>>,
    <<72760, 72765>>, <<72767, 72767>>, <<72850, 72871>>, <<72874, 72880>>,
    <<72882, 72883>>, <<72885, 72886>>, <<73009, 73014>>, <<73018, 73018>>,
    <<73020, 73021>>, <<73023, 73029>>, <<73031, 73031>>, <<73104, 73105>>,
    <<73109, 73109>>, <<73111, 73111>>, <<73177, 73177>>, <<73459, 73460>>,
    <<73472, 73473>>, <<73526, 73530>>, <<73536, 73536>>, <<73538, 73538>>,
    <<73562, 73562>>, <<78896, 78912>>, <<78919, 78933>>, <<90398, 90409>>,
    <<90413, 90415>>, <<92912, 92916>>, <<92976, 92982>>, <<92992, 92995>>,
    <<93504, 93506>>, <<93547, 93548>>, <<94031, 94031>>, <<94095, 94111>>,
    <<94176, 94177>>, <<94179, 94180>>, <<94194, 94195>>, <<110576, 110579>>,
    <<110581, 110587>>, <<110589, 110590>>, <<113821, 113822>>,
    <<113824, 113827>>, <<118528, 118573>>, <<118576, 118598>>,
    <<119143, 119145>>, <<119155, 119170>>, <<119173, 119179>>,
    <<119210, 119213>>, <<119362, 119364>>, <<121344, 121398>>,
    <<121403, 121452>>, <<121461, 121461>>, <<121476, 121476>>,
    <<121499, 121503>>, <<121505, 121519>>, <<122880, 122886>>,
    <<122888, 122904>>, <<122907, 122913>>, <<122915, 122916>>,
    <<122918, 122922>>, <<122928, 122989>>, <<123023, 123023>>,
    <<123184, 123197>>, <<123566, 123566>>, <<123628, 123631>>,
    <<124139, 124143>>, <<124398, 124399>>, <<124643, 124643>>,
    <<124646, 124646>>, <<124654, 124655>>, <<124661, 124661>>,
    <<124671, 124671>>, <<125136, 125142>>, <<125252, 125259>>,
    <<127995, 127999>>, <<917505, 917505>>, <<917536, 917631>>,
    <<917760, 917999>>>>

\* cp is in one of the ranges <<first, last>>.
InRanges(cp, ranges) ==
  \E i \in DOMAIN ranges : cp \in ranges[i][1]..ranges[i][2]

\* The lower-case code point of a code point: A-Z to a-z below U+0080, and
\* above it the distance of the range of LowerCaseRanges that holds cp.
LowerChar(cp) ==
  IF cp < 128 THEN IF cp \in 65..90 THEN cp + 32 ELSE cp
  ELSE LET hits == {i \in DOMAIN LowerCaseRanges :
                      /\ cp \in LowerCaseRanges[i][1]..LowerCaseRanges[i][2]
                      /\ (cp - LowerCaseRanges[i][1]) % LowerCaseRanges[i][3] = 0}
       IN IF hits = {} THEN cp
          ELSE cp + LowerCaseRanges[CHOOSE i \in hits : TRUE][4]

\* A cased letter, then case-ignorable code points, end at position i.
RECURSIVE CasedBefore(_, _)
CasedBefore(s, i) ==
  IF i < 1 THEN FALSE
  ELSE IF IsSurrogatePair(s, i - 1)
    THEN IF InRanges(CodePointAt(s, i - 1), CaseIgnorableRanges)
           THEN CasedBefore(s, i - 2)
           ELSE InRanges(CodePointAt(s, i - 1), CasedRanges)
  ELSE IF InRanges(s[i], CaseIgnorableRanges) THEN CasedBefore(s, i - 1)
  ELSE InRanges(s[i], CasedRanges)

\* Case-ignorable code points, then a cased letter, begin at position i.
RECURSIVE CasedAfter(_, _)
CasedAfter(s, i) ==
  IF i > Len(s) THEN FALSE
  ELSE IF InRanges(CodePointAt(s, i), CaseIgnorableRanges)
    THEN CasedAfter(s, IF IsSurrogatePair(s, i) THEN i + 2 ELSE i + 1)
  ELSE InRanges(CodePointAt(s, i), CasedRanges)

\* The lower case of s from position i on, code point by code point: U+0130
\* becomes i and U+0307, a capital sigma that ends a word the final sigma.
RECURSIVE LowerCaseFrom(_, _)
LowerCaseFrom(s, i) ==
  IF i > Len(s) THEN <<>>
  ELSE (LET cp == CodePointAt(s, i)
        IN IF cp = 304 THEN <<105, 775>>
           ELSE IF cp = 931
             THEN IF CasedBefore(s, i - 1) /\ ~CasedAfter(s, i + 1)
                    THEN <<962>>
                    ELSE <<963>>
           ELSE CodeUnits(LowerChar(cp)))
         \o LowerCaseFrom(s, IF IsSurrogatePair(s, i) THEN i + 2 ELSE i + 1)

\* String.prototype.toLowerCase
ToLowerCase(s) ==
  IF \A i \in DOMAIN s : s[i] < 128
    THEN [i \in DOMAIN s |-> LowerChar(s[i])]
    ELSE LowerCaseFrom(s, 1)

\* Number(text) for a string of decimal digits.
RECURSIVE Number(_)
Number(s) ==
  IF s = <<>> THEN 0
  ELSE 10 * Number(SubSeq(s, 1, Len(s) - 1)) + s[Len(s)] - 48

\* n.toString().padStart(2, "0") for 0 <= n <= 99.
PadStart2(n) == <<48 + (n \div 10), 48 + (n % 10)>>

\* const nonEmptyString = (value) => value.trim().length > 0
nonEmptyString(value) == Len(Trim(value)) > 0

\* ------------------------------------------------------------------------
\* slugify
\* ------------------------------------------------------------------------

\* .replace(/[^a-z0-9\s-]/g, "")
RECURSIVE RemoveNonSlugChars(_)
RemoveNonSlugChars(s) ==
  IF s = <<>> THEN <<>>
  ELSE IF IsLower(Head(s)) \/ IsDigit(Head(s)) \/ IsSpace(Head(s)) \/ Head(s) = 45
    THEN <<Head(s)>> \o RemoveNonSlugChars(Tail(s))
    ELSE RemoveNonSlugChars(Tail(s))

\* .replace(/\s+/g, "-")
RECURSIVE SpacesToDash(_)
SpacesToDash(s) ==
  IF s = <<>> THEN <<>>
  ELSE IF IsSpace(Head(s))
    THEN <<45>> \o SpacesToDash(TrimStart(s))
    ELSE <<Head(s)>> \o SpacesToDash(Tail(s))

\* .replace(/-+/g, "-")
RECURSIVE CollapseDashes(_)
CollapseDashes(s) ==
  IF s = <<>> THEN <<>>
  ELSE IF Head(s) = 45 /\ Len(s) > 1 /\ s[2] = 45
    THEN CollapseDashes(Tail(s))
    ELSE <<Head(s)>> \o CollapseDashes(Tail(s))

slugify(value) ==
  CollapseDashes(SpacesToDash(RemoveNonSlugChars(Trim(ToLowerCase(value)))))

\* ------------------------------------------------------------------------
\* normalizeTime
\* ------------------------------------------------------------------------
AllDigits(s) == \A i \in DOMAIN s : IsDigit(s[i])

\* trimmed.match(/^(\d{1,2}):(\d{2})(?::(\d{2}))?$/): the captured groups, or
\* <<>> when the string does not match.
TimeMatch(s) ==
  LET colons == {i \in DOMAIN s : s[i] = 58}
      p == IF colons = {} THEN 0
           ELSE CHOOSE i \in colons : \A j \in colons : i <= j
      rest == SubSeq(s, p + 1, Len(s))
  IN IF /\ p \in {2, 3}
        /\ AllDigits(SubSeq(s, 1, p - 1))
        /\ Len(rest) \in {2, 5}
        /\ AllDigits(SubSeq(rest, 1, 2))
        /\ (Len(rest) = 5 => rest[3] = 58 /\ AllDigits(SubSeq(rest, 4, 5)))
       THEN <<SubSeq(s, 1, p - 1), SubSeq(rest, 1, 2),
              IF Len(rest) = 5 THEN SubSeq(rest, 4, 5) ELSE <<>> >>
       ELSE <<>>

\* The result is [ok |-> TRUE, value |-> "HH:MM"] or the thrown error:
\* if (hours < 0 || hours > 23 || minutes < 0 || minutes > 59) throw
normalizeTime(value) ==
  LET trimmed == Trim(value)
      match == TimeMatch(trimmed)
  IN IF match = <<>>
       THEN [ok |-> FALSE, error |-> "time format"]
       ELSE LET hours == Number(match[1])
                minutes == Number(match[2])
            IN IF hours < 0 \/ hours > 23 \/ minutes < 0 \/ minutes > 59
                 THEN [ok |-> FALSE, error |-> "time range"]
                 ELSE [ok |-> TRUE,
                       value |-> PadStart2(hours) \o <<58>> \o PadStart2(minutes)]

\* ------------------------------------------------------------------------
\* normalizeDate
\* ------------------------------------------------------------------------
\* new Date(value) hands the text to the date parser of the engine (V8): a
\* tokenizer, the ES5 date-time format, and the legacy parser for whatever
\* the ES5 format does not cover.

\* Tokens of the date tokenizer: a number with its value and length in
\* characters, one of the symbols : - + . ), a word with its keyword type and
\* value, white space, an unknown character, and the end of the input.
DateToken(k, n, len, s, type) ==
  [k |-> k, n |-> n, len |-> len, s |-> s, type |-> type]
EndOfInput == DateToken("end", 0, 0, 0, "")
WhiteSpaceToken == DateToken("space", 0, 0, 0, "")
UnknownToken == DateToken("unknown", 0, 0, 0, "")

\* IsAsciiAlphaOrAbove() && !IsWhiteSpaceChar(): the characters of a word are
\* those from the letter A on that are not white space. The line terminators
\* U+2028 and U+2029 are no white space to this test, so they are characters
\* of a word.
WordChars == (65..65535) \ (WhiteSpace \ {8232, 8233})

\* AsciiAlphaToLower: c | 0x20.
AsciiAlphaToLower(ch) == IF (ch \div 32) % 2 = 0 THEN ch + 32 ELSE ch

\* Length of the longest prefix of s whose characters are all in chars.
PrefixLen(s, chars) ==
  IF \A i \in DOMAIN s : s[i] \in chars THEN Len(s)
  ELSE (CHOOSE i \in DOMAIN s :
          s[i] \notin chars /\ \A j \in 1..(i - 1) : s[j] \in chars) - 1

\* ReadUnsignedNumeral: leading zeros are skipped and at most nine digits count.
ReadUnsignedNumeral(digits) ==
  LET rest == SubSeq(digits, PrefixLen(digits, {48}) + 1,
                     Len(digits))
  IN Number(SubSeq(rest, 1, IF Len(rest) < 9 THEN Len(rest) ELSE 9))

\* SkipParentheses: from an opening parenthesis to its balancing one, or to
\* the end of the input; "(" raises the balance and ")" lowers it.
RECURSIVE SkipParentheses(_, _)
SkipParentheses(s, balance) ==
  IF s = <<>> \/ Head(s) = 0 THEN s
  ELSE LET after == IF Head(s) = 41 THEN balance - 1
                    ELSE IF Head(s) = 40 THEN balance + 1
                    ELSE balance
       IN IF after > 0 THEN SkipParentheses(Tail(s), after) ELSE Tail(s)

\* jan, feb, mar, apr, may, jun, jul, aug, sep, oct, nov, dec
MonthNames ==
  <<<<106, 97, 110>>, <<102, 101, 98>>, <<109, 97, 114>>,
    <<97, 112, 114>>, <<109, 97, 121>>, <<106, 117, 110>>,
    <<106, 117, 108>>, <<97, 117, 103>>, <<115, 101, 112>>,
    <<111, 99, 116>>, <<110, 111, 118>>, <<100, 101, 99>>>>

\* The other keywords: am and pm with their hour offset, the time zone names
\* ut, utc, z, gmt, cdt, cst, edt, est, mdt, mst, pdt and pst with their
\* offset in hours, and the time separator t.
Keywords ==
  <<[word |-> <<97, 109>>, type |-> "ampm", value |-> 0],
    [word |-> <<112, 109>>, type |-> "ampm", value |-> 12],
    [word |-> <<117, 116>>, type |-> "zone", value |-> 0],
    [word |-> <<117, 116, 99>>, type |-> "zone", value |-> 0],
    [word |-> <<122>>, type |-> "zone", value |-> 0],
    [word |-> <<103, 109, 116>>, type |-> "zone", value |-> 0],
    [word |-> <<99, 100, 116>>, type |-> "zone", value |-> -5],
    [word |-> <<99, 115, 116>>, type |-> "zone", value |-> -6],
    [word |-> <<101, 100, 116>>, type |-> "zone", value |-> -4],
    [word |-> <<101, 115, 116>>, type |-> "zone", value |-> -5],
    [word |-> <<109, 100, 116>>, type |-> "zone", value |-> -6],
    [word |-> <<109, 115, 116>>, type |-> "zone", value |-> -7],
    [word |-> <<112, 100, 116>>, type |-> "zone", value |-> -7],
    [word |-> <<112, 115, 116>>, type |-> "zone", value |-> -8],
    [word |-> <<116>>, type |-> "separator", value |-> 0]>>

\* KeywordTable::Lookup on the lower-cased first three characters of a word:
\* a month name may be followed by more letters, any other keyword may not.
KeywordLookup(word) ==
  LET len == Len(word)
      pre == [i \in 1..(IF len < 3 THEN len ELSE 3) |-> AsciiAlphaToLower(word[i])]
  IN IF \E m \in DOMAIN MonthNames : MonthNames[m] = pre
       THEN DateToken("word", CHOOSE m \in DOMAIN MonthNames : MonthNames[m] = pre,
                      len, "", "month")
     ELSE IF len <= 3 /\ \E i \in DOMAIN Keywords : Keywords[i].word = pre
       THEN LET kw == Keywords[CHOOSE i \in DOMAIN Keywords : Keywords[i].word = pre]
            IN DateToken("word", kw.value, len, "", kw.type)
     ELSE DateToken("word", 0, len, "", "none")

\* DateStringTokenizer::Scan, applied until the end of the input: the end of
\* the text or the first U+0000 in it. The symbols are : - + . and ).
\* SkipWhiteSpace takes one character of white space or a line terminator,
\* which is a line feed or a carriage return here: U+2028 and U+2029 have
\* begun a word before.
RECURSIVE Scan(_)
Scan(s) ==
  IF s = <<>> \/ Head(s) = 0 THEN <<>>
  ELSE IF IsDigit(Head(s))
    THEN <<DateToken("number",
                     ReadUnsignedNumeral(SubSeq(s, 1, PrefixLen(s, 48..57))),
                     PrefixLen(s, 48..57), 0, "")>>
           \o Scan(SubSeq(s, PrefixLen(s, 48..57) + 1, Len(s)))
  ELSE IF Head(s) \in {58, 45, 43, 46, 41}
    THEN <<DateToken("symbol", 0, 1, Head(s), "")>> \o Scan(Tail(s))
  ELSE IF Head(s) \in WordChars
    THEN <<KeywordLookup(SubSeq(s, 1, PrefixLen(s, WordChars)))>>
           \o Scan(SubSeq(s, PrefixLen(s, WordChars) + 1, Len(s)))
  ELSE IF IsSpace(Head(s))
    THEN <<WhiteSpaceToken>> \o Scan(Tail(s))
  ELSE IF Head(s) = 40
    THEN <<UnknownToken>> \o Scan(SkipParentheses(s, 0))
  ELSE <<UnknownToken>> \o Scan(Tail(s))

\* The token at position i (Peek), the end of the input past the last one.
Peek(toks, i) == IF i <= Len(toks) THEN toks[i] ELSE EndOfInput

IsNumber(t) == t.k = "number"
IsFixedNumber(t, len) == t.k = "number" /\ t.len = len
IsSymbol(t, ch) == t.k = "symbol" /\ t.s = ch
IsAsciiSign(t) == t.k = "symbol" /\ t.s \in {43, 45}
IsKeywordType(t, type) == t.k = "word" /\ t.type = type
IsKeywordZ(t) == IsKeywordType(t, "zone") /\ t.len = 1
AsciiSign(t) == IF t.s = 43 THEN 1 ELSE -1

IsMonth(x) == x \in 1..12
IsDay(x) == x \in 1..31
IsHour(x) == x \in 0..23
IsMinute(x) == x \in 0..59
IsSecond(x) == x \in 0..59
IsMillisecond(x) == x \in 0..999

RECURSIVE Pow10(_)
Pow10(e) == IF e = 0 THEN 1 ELSE 10 * Pow10(e - 1)

\* ReadMilliseconds: only the first three digits of a fraction count.
ReadMilliseconds(t) ==
  IF t.len = 1 THEN t.n * 100
  ELSE IF t.len = 2 THEN t.n * 10
  ELSE IF t.len > 3
    THEN t.n \div Pow10((IF t.len > 9 THEN 9 ELSE t.len) - 3)
  ELSE t.n

\* The day, time and time zone composers before anything is read: -1 and the
\* sign 0 stand for "none".
Composers ==
  [day |-> <<>>, namedMonth |-> -1, isIsoDate |-> FALSE,
   time |-> <<>>, hourOffset |-> -1,
   tzSign |-> 0, tzHour |-> -1, tzMinute |-> -1,
   hasReadNumber |-> FALSE, ok |-> TRUE]

Invalid(c) == [c EXCEPT !.ok = FALSE]

\* TimeZoneComposer::Set(offset_in_hours)
TzSet(c, hours) ==
  [c EXCEPT !.tzSign = IF hours < 0 THEN -1 ELSE 1,
            !.tzHour = IF hours < 0 THEN -hours ELSE hours,
            !.tzMinute = 0]

\* TimeComposer::IsExpecting
TimeIsExpecting(c, n) ==
  \/ Len(c.time) = 1 /\ IsMinute(n)
  \/ Len(c.time) = 2 /\ IsSecond(n)
  \/ Len(c.time) = 3 /\ IsMillisecond(n)

\* TimeComposer::AddFinal: the value, then zeros up to the millisecond.
TimeAddFinal(time, n) ==
  IF Len(time) >= 4 THEN time
  ELSE time \o <<n>> \o [i \in 1..(3 - Len(time)) |-> 0]

\* TimeZoneComposer::IsExpecting
TzIsExpecting(c, n) == c.tzHour # -1 /\ c.tzMinute = -1 /\ IsMinute(n)

\* The optional time zone of the ES5 format, 'Z' | [+-]hh':'mm | [+-]hhmm, at
\* position i, which must end the text.
ParseES5TimeZone(toks, i, c) ==
  LET AtEnd(j, d) == IF Peek(toks, j).k = "end" THEN d ELSE Invalid(d)
      t1 == Peek(toks, i + 1)
      t3 == Peek(toks, i + 3)
  IN IF IsKeywordZ(Peek(toks, i)) THEN AtEnd(i + 1, TzSet(c, 0))
     ELSE IF IsAsciiSign(Peek(toks, i))
       THEN LET sign == AsciiSign(Peek(toks, i))
            IN IF IsFixedNumber(t1, 4)
                 THEN IF ~IsHour(t1.n \div 100) \/ ~IsMinute(t1.n % 100)
                        THEN Invalid(c)
                        ELSE AtEnd(i + 2, [c EXCEPT !.tzSign = sign,
                                                    !.tzHour = t1.n \div 100,
                                                    !.tzMinute = t1.n % 100])
               ELSE IF ~IsFixedNumber(t1, 2) \/ ~IsHour(t1.n) THEN Invalid(c)
               ELSE IF ~IsSymbol(Peek(toks, i + 2), 58) THEN Invalid(c)
               ELSE IF ~IsFixedNumber(t3, 2) \/ ~IsMinute(t3.n) THEN Invalid(c)
               ELSE AtEnd(i + 4, [c EXCEPT !.tzSign = sign, !.tzHour = t1.n,
                                           !.tzMinute = t3.n])
     ELSE AtEnd(i, c)

\* The time of the ES5 format, HH':'mm[':'ss['.'sss]], at position i after the
\* separator T; 24:00:00.000 is the only time of hour 24.
ParseES5Time(toks, i, c) ==
  LET h == Peek(toks, i)
      m == Peek(toks, i + 2)
      hasSecond == IsSymbol(Peek(toks, i + 3), 58)
      s == Peek(toks, i + 4)
      hasMilli == hasSecond /\ IsSymbol(Peek(toks, i + 5), 46)
      ms == Peek(toks, i + 6)
  IN IF ~IsFixedNumber(h, 2) \/ h.n > 24 THEN Invalid(c)
     ELSE IF ~IsSymbol(Peek(toks, i + 1), 58) THEN Invalid(c)
     ELSE IF ~IsFixedNumber(m, 2) \/ ~IsMinute(m.n) \/ (h.n = 24 /\ m.n > 0)
       THEN Invalid(c)
     ELSE IF hasSecond /\ (~IsFixedNumber(s, 2) \/ ~IsSecond(s.n)
                             \/ (h.n = 24 /\ s.n > 0))
       THEN Invalid(c)
     ELSE IF hasMilli /\ (~IsNumber(ms) \/ (h.n = 24 /\ ms.n > 0))
       THEN Invalid(c)
     ELSE ParseES5TimeZone(
            toks,
            i + 3 + (IF hasSecond THEN 2 ELSE 0) + (IF hasMilli THEN 2 ELSE 0),
            [c EXCEPT !.time = <<h.n, m.n>>
                                 \o (IF hasSecond THEN <<s.n>> ELSE <<>>)
                                 \o (IF hasMilli THEN <<ReadMilliseconds(ms)>>
                                     ELSE <<>>)])

\* ParseES5DateTime: [-+]yyyyyy[-MM[-DD]] or yyyy[-MM[-DD]], then the optional
\* time. The result is the composers and `next`: 0 when the whole text was
\* read as an ES5 date-time, else the position of the token at which the
\* legacy parser takes over with what has been composed so far.
ES5Rest(c, i) == [c |-> c, next |-> i]

\* after the date: an ES5 time, the end of the text, or the legacy parser
ES5AfterDate(toks, c, i) ==
  IF IsKeywordType(Peek(toks, i), "separator")
    THEN ES5Rest([ParseES5Time(toks, i + 1, c) EXCEPT !.isIsoDate = TRUE], 0)
  ELSE IF Peek(toks, i).k # "end" THEN ES5Rest(c, i)
  ELSE ES5Rest([TzSet(c, 0) EXCEPT !.isIsoDate = TRUE], 0)

\* One optional part of the date, '-' and two digits that `fits` accepts, at
\* position at.i: the part is read, or the date ends here (`ended`), or the
\* digits are missing and the legacy parser takes over (`legacy`).
ES5DatePart(toks, at, isDay) ==
  IF at.ended \/ at.legacy THEN at
  ELSE IF ~IsSymbol(Peek(toks, at.i), 45) THEN [at EXCEPT !.ended = TRUE]
  ELSE IF \/ ~IsFixedNumber(Peek(toks, at.i + 1), 2)
          \/ ~(IF isDay THEN IsDay(Peek(toks, at.i + 1).n)
               ELSE IsMonth(Peek(toks, at.i + 1).n))
    THEN [at EXCEPT !.legacy = TRUE, !.i = @ + 1]
  ELSE [at EXCEPT !.c.day = Append(@, Peek(toks, at.i + 1).n), !.i = @ + 2]

\* after [-MM[-DD]]
ES5AfterParts(toks, at) ==
  IF at.legacy THEN ES5Rest(at.c, at.i) ELSE ES5AfterDate(toks, at.c, at.i)

\* [-MM[-DD]] after the year, then the rest
ES5AfterYear(toks, c, i) ==
  ES5AfterParts(toks,
    ES5DatePart(toks,
      ES5DatePart(toks, [c |-> c, i |-> i, ended |-> FALSE, legacy |-> FALSE],
                  FALSE),
      TRUE))

\* The year: a sign and six digits (not -000000), or four digits.
ES5Year(toks, first, second) ==
  IF IsAsciiSign(first)
    THEN IF ~IsFixedNumber(second, 6) THEN ES5Rest(Composers, 1)
         ELSE IF AsciiSign(first) < 0 /\ second.n = 0 THEN ES5Rest(Composers, 3)
         ELSE ES5AfterYear(toks, [Composers EXCEPT !.day = <<AsciiSign(first) * second.n>>], 3)
  ELSE IF IsFixedNumber(first, 4)
    THEN ES5AfterYear(toks, [Composers EXCEPT !.day = <<first.n>>], 2)
  ELSE ES5Rest(Composers, 1)

ParseES5DateTime(toks) == ES5Year(toks, Peek(toks, 1), Peek(toks, 2))

\* The loop of the legacy parser from the token at position i on.
RECURSIVE ParseLegacy(_, _, _)
ParseLegacy(toks, i, c) ==
  LET token == Peek(toks, i)
      n == token.n
      read == [c EXCEPT !.hasReadNumber = TRUE]
      \* scanner.SkipSymbol('.') takes the point whatever comes of it
      dot == IsSymbol(Peek(toks, i + 1), 46)
      j == IF dot THEN i + 2 ELSE i + 1
      \* the number that may follow a sign
      signed == IsNumber(Peek(toks, i + 1))
      offset == IF signed THEN Peek(toks, i + 1) ELSE DateToken("number", 0, 0, 0, "")
      k == IF signed THEN i + 2 ELSE i + 1
      zone == [read EXCEPT !.tzSign = AsciiSign(token)]
  IN IF ~c.ok \/ token.k = "end" THEN c
     ELSE IF IsNumber(token)
       THEN IF IsSymbol(Peek(toks, i + 1), 58)
              THEN IF IsSymbol(Peek(toks, i + 2), 58)
                     THEN IF c.time # <<>> THEN Invalid(c)
                          ELSE ParseLegacy(toks, i + 3, [read EXCEPT !.time = <<n, 0>>])
                   ELSE IF Len(c.time) >= 4 THEN Invalid(c)
                   ELSE ParseLegacy(
                          toks,
                          IF IsSymbol(Peek(toks, i + 2), 46) THEN i + 3 ELSE i + 2,
                          [read EXCEPT !.time = Append(@, n)])
            ELSE IF dot /\ TimeIsExpecting(c, n)
              THEN IF ~IsNumber(Peek(toks, j)) THEN Invalid(c)
                   ELSE ParseLegacy(
                          toks, j + 1,
                          [read EXCEPT !.time = TimeAddFinal(Append(@, n),
                                                   ReadMilliseconds(Peek(toks, j)))])
            ELSE IF TzIsExpecting(c, n)
              THEN ParseLegacy(toks, j, [read EXCEPT !.tzMinute = n])
            ELSE IF TimeIsExpecting(c, n)
              THEN IF ~(\/ Peek(toks, j).k \in {"end", "space"}
                        \/ IsKeywordZ(Peek(toks, j))
                        \/ IsAsciiSign(Peek(toks, j)))
                     THEN Invalid(c)
                     ELSE ParseLegacy(toks, j, [read EXCEPT !.time = TimeAddFinal(@, n)])
            ELSE IF Len(c.day) >= 3 THEN Invalid(c)
            ELSE ParseLegacy(toks,
                             IF IsSymbol(Peek(toks, j), 45) THEN j + 1 ELSE j,
                             [read EXCEPT !.day = Append(@, n)])
     ELSE IF token.k = "word"
       THEN IF token.type = "ampm" /\ c.time # <<>>
              THEN ParseLegacy(toks, i + 1, [c EXCEPT !.hourOffset = n])
            ELSE IF token.type = "month"
              THEN ParseLegacy(toks,
                               IF IsSymbol(Peek(toks, i + 1), 45) THEN i + 2 ELSE i + 1,
                               [c EXCEPT !.namedMonth = n])
            ELSE IF token.type = "zone" /\ c.hasReadNumber
              THEN ParseLegacy(toks, i + 1, TzSet(c, n))
            ELSE IF c.hasReadNumber \/ IsNumber(Peek(toks, i + 1)) THEN Invalid(c)
            ELSE ParseLegacy(toks, i + 1, c)
     ELSE IF IsAsciiSign(token) /\ ((c.tzHour = 0 /\ c.tzMinute = 0) \/ c.time # <<>>)
       THEN IF IsSymbol(Peek(toks, k), 58)
              THEN ParseLegacy(toks, k, [zone EXCEPT !.tzHour = offset.n,
                                                     !.tzMinute = -1])
            ELSE IF offset.len \in {1, 2}
              THEN ParseLegacy(toks, k, [zone EXCEPT !.tzHour = offset.n,
                                                     !.tzMinute = 0])
            ELSE IF offset.len \in {3, 4}
              THEN ParseLegacy(toks, k, [zone EXCEPT !.tzHour = offset.n \div 100,
                                                     !.tzMinute = offset.n % 100])
            ELSE Invalid(c)
     ELSE IF (IsAsciiSign(token) \/ IsSymbol(token, 41)) /\ c.hasReadNumber
       THEN Invalid(c)
     ELSE ParseLegacy(toks, i + 1, c)

\* DayComposer::Write: <<year, month, day>> of what was composed, or <<>>.
\* Missing components default to 1; a first component that cannot be a day is
\* the year; a year of one or two digits is of 2000-2049 or 1950-1999.
DayComposerWrite(c) ==
  LET comp == c.day \o [i \in 1..(3 - Len(c.day)) |-> 1]
      ymd == IF c.namedMonth = -1
               THEN IF c.isIsoDate \/ ~IsDay(comp[1])
                      THEN <<comp[1], comp[2], comp[3]>>
                      ELSE <<comp[3], comp[1], comp[2]>>
               ELSE IF ~IsDay(comp[1])
                      THEN <<comp[1], c.namedMonth, comp[2]>>
                      ELSE <<comp[2], c.namedMonth, comp[1]>>
      year == IF c.isIsoDate THEN ymd[1]
              ELSE IF ymd[1] \in 0..49 THEN ymd[1] + 2000
              ELSE IF ymd[1] \in 50..99 THEN ymd[1] + 1900
              ELSE ymd[1]
  IN IF c.day = <<>> \/ ~IsMonth(ymd[2]) \/ ~IsDay(ymd[3]) THEN <<>>
     ELSE <<year, ymd[2], ymd[3]>>

\* TimeComposer::Write: <<hour, minute, second, millisecond>>, or <<>>.
TimeComposerWrite(c) ==
  LET comp == c.time \o [i \in 1..(4 - Len(c.time)) |-> 0]
      hour == IF c.hourOffset = -1 THEN comp[1]
              ELSE (comp[1] % 12) + c.hourOffset
      hms == <<hour, comp[2], comp[3], comp[4]>>
  IN IF c.hourOffset # -1 /\ comp[1] \notin 0..12 THEN <<>>
     ELSE IF /\ ~(IsHour(hour) /\ IsMinute(comp[2]) /\ IsSecond(comp[3])
                  /\ IsMillisecond(comp[4]))
             /\ hms # <<24, 0, 0, 0>>
       THEN <<>>
     ELSE hms

\* TimeZoneComposer::Write: the seconds east of UTC, or local time when the
\* text names no zone. The seconds are computed in 32 bits, here in two halves
\* of 16 bits, and must stay below 2^31.
TimeZoneComposerWrite(c) ==
  LET hour == IF c.tzHour = -1 THEN 0 ELSE c.tzHour
      minute == IF c.tzMinute = -1 THEN 0 ELSE c.tzMinute
      low == (hour % 65536) * 3600 + minute * 60
      high == ((hour \div 65536) * 3600 + (low \div 65536)) % 65536
  IN IF c.tzSign = 0 THEN [ok |-> TRUE, local |-> TRUE, seconds |-> 0]
     ELSE IF high >= 32768 THEN [ok |-> FALSE, local |-> FALSE, seconds |-> 0]
     ELSE [ok |-> TRUE, local |-> FALSE,
           seconds |-> c.tzSign * (high * 65536 + (low % 65536))]

\* Days from 1970-01-01 to the first day of a month (MakeDay).
DaysFromCivil(year, month) ==
  LET y == IF month <= 2 THEN year - 1 ELSE year
      era == y \div 400
      yoe == y - era * 400
      doy == (153 * ((month + 9) % 12) + 2) \div 5
      doe == yoe * 365 + (yoe \div 4) - (yoe \div 100) + doy
  IN era * 146097 + doe - 719468

\* <<year, month, day>> of a day counted from 1970-01-01: the year of the
\* era and the day of the year counted from March 1st, then the month.
CivilOfMonth(era, yoe, doy, mp) ==
  <<yoe + era * 400 + (IF mp < 10 THEN 0 ELSE 1),
    IF mp < 10 THEN mp + 3 ELSE mp - 9,
    doy - ((153 * mp + 2) \div 5) + 1>>

CivilOfDayOfYear(era, yoe, doy) ==
  CivilOfMonth(era, yoe, doy, (5 * doy + 2) \div 153)

CivilOfYearOfEra(era, doe, yoe) ==
  CivilOfDayOfYear(era, yoe, doe - (365 * yoe + (yoe \div 4) - (yoe \div 100)))

CivilOfDayOfEra(era, doe) ==
  CivilOfYearOfEra(era, doe,
    (doe - (doe \div 1460) + (doe \div 36524) - (doe \div 146096)) \div 365)

CivilOfEra(z, era) == CivilOfDayOfEra(era, z - era * 146097)

CivilFromDays(days) == CivilOfEra(days + 719468, (days + 719468) \div 146097)

\* n in decimal, padded with zeros to width digits.
RECURSIVE PadStart(_, _)
PadStart(n, width) ==
  IF width = 0 THEN <<>>
  ELSE PadStart(n \div 10, width - 1) \o <<48 + (n % 10)>>

\* The year of toISOString: four digits for the years 0 to 9999, else a sign
\* and six.
ISOYear(year) ==
  IF year \in 0..9999 THEN PadStart(year, 4)
  ELSE IF year < 0 THEN <<45>> \o PadStart(-year, 6)
  ELSE <<43>> \o PadStart(year, 6)

\* toISOString of the date ymd, `seconds` and `millis` into that day.
ISOStringOf(ymd, seconds, millis) ==
  ISOYear(ymd[1]) \o <<45>> \o PadStart(ymd[2], 2) \o <<45>> \o PadStart(ymd[3], 2)
  \o <<84>> \o PadStart(seconds \div 3600, 2)
  \o <<58>> \o PadStart((seconds \div 60) % 60, 2)
  \o <<58>> \o PadStart(seconds % 60, 2)
  \o <<46>> \o PadStart(millis, 3) \o <<90>>

\* Date.prototype.toISOString of the instant at `seconds` and `millis` into
\* the day `days`.
ToISOString(days, seconds, millis) ==
  ISOStringOf(CivilFromDays(days), seconds, millis)

\* The seconds east of UTC that the local time of the server process may be:
\* the time zone is whatever the process is started in, and TZ may name any
\* offset up to MaxZoneSeconds on either side of UTC.
LocalOffsets == (-MaxZoneSeconds)..MaxZoneSeconds

\* The legacy parser takes over where the ES5 format left off, if it did.
ParseAfterES5(toks, es5) ==
  IF es5.next = 0 THEN es5.c
  ELSE ParseLegacy(toks, es5.next,
                   [es5.c EXCEPT !.hasReadNumber = es5.c.day # <<>>])

\* DateParser::Parse: what the composers write out for the tokens of a text.
DateParserWrite(c) ==
  [ok |-> c.ok, day |-> DayComposerWrite(c), time |-> TimeComposerWrite(c),
   tz |-> TimeZoneComposerWrite(c)]

\* TimeClip, then toISOString: an instant more than 100,000,000 days from
\* 1970-01-01 is no Date. `local` counts the seconds from the start of the
\* day the text names, the time zone taken off.
TimeClipToISOString(days, local, millis) ==
  IF \/ days \in -100000000..99999999
     \/ days = 100000000 /\ local % 86400 = 0 /\ millis = 0
    THEN ToISOString(days, local % 86400, millis)
    ELSE <<>>

\* MakeDay and MakeDate on what the parser wrote out.
MakeDate(out, offset, local) ==
  TimeClipToISOString(DaysFromCivil(out.day[1], out.day[2]) + out.day[3] - 1
                        - (offset \div 86400) + (local \div 86400),
                      local, out.time[4])

\* MakeTime, less the seconds `offset` east of UTC.
MakeTime(out, offset) ==
  MakeDate(out, offset,
           out.time[1] * 3600 + out.time[2] * 60 + out.time[3] - (offset % 86400))

\* The instant of what the parser wrote out, as toISOString prints it: a text
\* without a time zone is local time, `offset` seconds east of UTC, and no
\* time zone brings a year outside of -300000..300000 into the range of a
\* Date.
ParsedToISOString(out, offset) ==
  IF ~out.ok \/ out.day = <<>> \/ out.time = <<>> \/ ~out.tz.ok THEN <<>>
  ELSE IF out.day[1] \notin -300000..300000 THEN <<>>
  ELSE MakeTime(out, IF out.tz.local THEN offset ELSE out.tz.seconds)

\* The tokens of a text through the parser.
DateParserParse(toks) == DateParserWrite(ParseAfterES5(toks, ParseES5DateTime(toks)))

\* new Date(value).toISOString() in a process whose local time is `offset`
\* seconds east of UTC, or <<>> for an Invalid Date.
DateToISOString(value, offset) ==
  ParsedToISOString(DateParserParse(Scan(value)), offset)

\* if (Number.isNaN(parsed.getTime())) throw ...;
\* return parsed.toISOString().slice(0, 10)
NormalizedOrInvalid(iso) ==
  IF iso = <<>>
    THEN [ok |-> FALSE, error |-> "date"]
    ELSE [ok |-> TRUE,
          value |-> SubSeq(iso, 1, IF Len(iso) < 10 THEN Len(iso) ELSE 10)]

\* normalizeDate of a text the parser wrote `out` for.
NormalizedDateOf(out, offset) ==
  NormalizedOrInvalid(ParsedToISOString(out, offset))

\* The result is [ok |-> TRUE, value |-> "YYYY-MM-DD"] or the thrown error.
normalizeDate(value, offset) ==
  NormalizedDateOf(DateParserParse(Scan(value)), offset)

\* What normalizeDate(value) may give, over the local times the process may
\* run in: the local time matters only to a text that names no time zone.
DateOutcomesOf(value) ==
  LET out == DateParserParse(Scan(value))
  IN {NormalizedDateOf(out, offset) :
        offset \in IF out.tz.local THEN LocalOffsets ELSE {0}}

\* ------------------------------------------------------------------------
\* isValidEmail
\* ------------------------------------------------------------------------

\* /^[^\s@]+@[^\s@]+\.[^\s@]+$/.test(value.trim())
isValidEmail(value) ==
  LET s == Trim(value)
      Plain(t) == t # <<>> /\ \A i \in DOMAIN t : ~IsSpace(t[i]) /\ t[i] # 64
  IN \E i \in DOMAIN s : \E j \in DOMAIN s :
       /\ s[i] = 64
       /\ i < j
       /\ s[j] = 46
       /\ Plain(SubSeq(s, 1, i - 1))
       /\ Plain(SubSeq(s, i + 1, j - 1))
       /\ Plain(SubSeq(s, j + 1, Len(s)))

\* ------------------------------------------------------------------------
\* Event schema
\* ------------------------------------------------------------------------
TextFields == {"title", "description", "overview", "image", "venue",
               "location", "date", "time", "mode", "audience", "organizer"}
ListFields == {"agenda", "tags"}
TrimmedFields == TextFields \cup {"slug"}
EventFields == TextFields \cup ListFields \cup {"slug"}

\* The setters of the schema (trim: true), applied when a path is assigned.
ApplySetters(attrs) ==
  [f \in DOMAIN attrs |-> IF f \in TrimmedFields THEN Trim(attrs[f]) ELSE attrs[f]]

\* validator of agenda and tags
NonEmptyList(value) ==
  /\ Len(value) > 0
  /\ \A i \in DOMAIN value : nonEmptyString(value[i])

\* The paths of doc that fail schema validation (required and validate).
InvalidPaths(doc) ==
  {f \in TextFields : ~nonEmptyString(doc[f])}
    \cup {f \in ListFields : ~NonEmptyList(doc[f])}

\* The slug part of the pre('save') hook.
HookSlugAlways(doc, titleModified) == Trim(slugify(doc.title))

HookSlug(doc, titleModified) ==
  IF (titleModified \/ doc.slug = <<>>) /\ nonEmptyString(doc.title)
    THEN Trim(slugify(doc.title))
    ELSE doc.slug

\* The date texts of the writes below: "2024-03-05T10:00:00Z", "2024-03-05",
\* "2024-03-05T23:30:00", which is local time, and "soon".
DateTimeUTC == <<50, 48, 50, 52, 45, 48, 51, 45, 48, 53,
                 84, 49, 48, 58, 48, 48, 58, 48, 48, 90>>
DateOnly == <<50, 48, 50, 52, 45, 48, 51, 45, 48, 53>>
DateTimeLocal == <<50, 48, 50, 52, 45, 48, 51, 45, 48, 53,
                   84, 50, 51, 58, 51, 48, 58, 48, 48>>
DateSoon == <<115, 111, 111, 110>>
DateTexts == {DateTimeUTC, DateOnly, DateTimeLocal, DateSoon}

\* DateOutcomesOf for each of DateTexts and each of the dates normalizeDate
\* returns for them, worked out once.
NormalizedDates ==
  LET texts == [d \in DateTexts |-> DateOutcomesOf(d)]
      dates == UNION {{r.value : r \in {x \in texts[d] : x.ok}} : d \in DateTexts}
  IN texts @@ [d \in dates |-> DateOutcomesOf(d)]

\* What normalizeDate(value) may give, taken from NormalizedDates where it is
\* listed.
DateOutcomes(value) ==
  IF value \in DOMAIN NormalizedDates THEN NormalizedDates[value]
  ELSE DateOutcomesOf(value)

\* What the hook does when normalizeDate or normalizeTime throws:
\* catch (error) { throw error }
HookErrorSwallowed(doc, error) == [ok |-> TRUE, doc |-> doc]

HookError(doc, error) == [ok |-> FALSE, error |-> error]

\* this.time = normalizeTime(this.time), or the error it throws
HookTime(doc, nt) ==
  IF ~nt.ok THEN HookError(doc, nt.error)
  ELSE [ok |-> TRUE, doc |-> [doc EXCEPT !.time = Trim(nt.value)]]

\* this.date = normalizeDate(this.date), or the error it throws, then the time
HookDate(doc, nd) ==
  IF ~nd.ok THEN HookError(doc, nd.error)
  ELSE HookTime([doc EXCEPT !.date = Trim(nd.value)], normalizeTime(doc.time))

\* eventSchema.pre('save'): the document after the hook, or the error thrown.
\* nd is what normalizeDate(this.date) gives in the local time of the process.
EventPreSave(doc, titleModified, nd) ==
  HookDate([doc EXCEPT !.slug = HookSlug(doc, titleModified)], nd)

\* The unique index on slug: some other document already holds this slug.
SlugTakenNever(evs, id, slug) == FALSE

SlugTaken(evs, id, slug) ==
  \E other \in DOMAIN evs : other # id /\ evs[other].slug = slug

\* ------------------------------------------------------------------------
\* Inputs of the writes
\* ------------------------------------------------------------------------
\* No assignment to a path: no code unit is negative.
Keep == <<-1>>

\* The titles "A b", "\ra \fB!", "!" and " ".
TitleAB == <<65, 32, 98>>
TitleAB2 == <<13, 97, 32, 12, 66, 33>>
TitleBang == <<33>>
Blank == <<32>>
TitleInputs == {TitleAB, TitleAB2, TitleBang, Blank}

\* The slugs "" and "zz".
SlugInputs == {<<>>, <<122, 122>>}

\* The times "9:05", "9:5", "24:00" and "09:05:30".
TimeShort == <<57, 58, 48, 53>>
TimeOneDigitMinute == <<57, 58, 53>>
TimeHour24 == <<50, 52, 58, 48, 48>>
TimeWithSeconds == <<48, 57, 58, 48, 53, 58, 51, 48>>

\* The text "x" of the other paths.
Text == <<120>>

\* The attributes passed to new Event(...).
EventAttrs(title, slug, date, time) ==
  [f \in EventFields |->
     CASE f = "title" -> title
       [] f = "slug" -> slug
       [] f = "date" -> date
       [] f = "time" -> time
       [] f \in ListFields -> <<Text>>
       [] OTHER -> Text]

\* Bad values of single paths, one for each check of the schema and the hook.
Defects ==
  {[path |-> f, value |-> Blank] : f \in {"title", "organizer"}}
    \cup {[path |-> "agenda", value |-> <<>>],
          [path |-> "tags", value |-> <<Text, Blank>>],
          [path |-> "date", value |-> DateSoon],
          [path |-> "time", value |-> TimeOneDigitMinute],
          [path |-> "time", value |-> TimeHour24]}

\* Inputs of a create: the well-formed attribute sets, with a slug of `slugs`
\* where the caller passes one, and attribute sets with exactly one bad path.
CreateInputs(slugs, defects) ==
  {EventAttrs(title, <<>>, DateTimeUTC, TimeShort) : title \in TitleInputs \ {Blank}}
    \cup {EventAttrs(TitleAB, slug, DateOnly, TimeWithSeconds) : slug \in slugs \ {<<>>}}
    \cup {[EventAttrs(TitleAB, <<>>, DateTimeUTC, TimeShort)
             EXCEPT ![d.path] = d.value] : d \in defects}

\* Inputs of an update: assignments to title and to slug, of the slugs in
\* `slugs`; and with the bad paths, a re-assignment of date and time and a
\* title assignment together with one bad path.
UpdateInputs(slugs, defects) ==
  {[title |-> title, slug |-> slug] :
     title \in {TitleAB2, TitleBang, Keep}, slug \in slugs \cup {Keep}}
    \cup (IF defects = {} THEN {} ELSE {[date |-> DateTimeLocal, time |-> TimeWithSeconds]})
    \cup {[f \in {"title", d.path} |-> IF f = d.path THEN d.value ELSE TitleBang] :
            d \in defects}

\* The assignments made to a loaded document before save(): Keep leaves the
\* path alone.
Assign(doc, changes) ==
  LET set == ApplySetters([f \in {g \in DOMAIN changes : changes[g] # Keep}
                             |-> changes[f]])
  IN [f \in EventFields |-> IF f \in DOMAIN set THEN set[f] ELSE doc[f]]

\* The paths an assignment marks modified (document.isModified): those
\* given a value that differs from the one they had. A path stays marked when
\* the hook then gives it the loaded value again.
ModifiedPaths(loaded, doc) == {f \in EventFields : doc[f] # loaded[f]}

Outcome(op, status) == [op |-> op, status |-> status]

\* ------------------------------------------------------------------------
\* Event writes
\* ------------------------------------------------------------------------

\* document.save() up to the database operation: schema validation, then the
\* pre('save') hook. loaded is the document as read from the store (<<>> for a
\* new document), doc the document after the caller's assignments.
EventSaveHooked(w, kind, id, loaded, doc, titleModified, hooked, opName) ==
  IF InvalidPaths(doc) # {}
    THEN /\ last' = Outcome(opName, "ValidationError")
         /\ UNCHANGED <<evOp, nextEventId>>
  ELSE IF ~hooked.ok
    THEN /\ last' = Outcome(opName, "HookError")
         /\ UNCHANGED <<evOp, nextEventId>>
  ELSE /\ kind = "insert" => id <= MaxEvents
       /\ evOp' = [evOp EXCEPT ![w] =
                     [kind |-> kind, id |-> id, pre |-> doc,
                      assigned |-> IF kind = "insert" THEN EventFields
                                   ELSE ModifiedPaths(loaded, doc),
                      titleModified |-> titleModified, doc |-> hooked.doc,
                      set |-> IF kind = "insert" THEN EventFields
                              ELSE ModifiedPaths(loaded, doc)
                                     \cup ModifiedPaths(doc, hooked.doc)]]
       /\ nextEventId' = IF kind = "insert" THEN id + 1 ELSE nextEventId
       /\ last' = Outcome(opName, "pending")

\* this.isModified('title'), and the hook run on the document
EventSaveLocal(w, kind, id, loaded, doc) ==
  \E nd \in DateOutcomes(doc.date) :
    EventSaveHooked(w, kind, id, loaded, doc,
                    kind = "insert" \/ doc.title # loaded.title,
                    EventPreSave(doc, kind = "insert" \/ doc.title # loaded.title, nd),
                    IF kind = "insert" THEN "event.insert" ELSE "event.update")

\* new Event(attrs).save(). The callers are alike, so a new call is given to
\* the first of them that is idle.
EventCreate(w, slugs, defects) ==
  /\ evOp[w] = Idle
  /\ \A v \in 1..(w - 1) : evOp[v] # Idle
  /\ nWrites < MaxWrites
  /\ nWrites' = nWrites + 1
  /\ \E attrs \in CreateInputs(slugs, defects) :
       EventSaveLocal(w, "insert", nextEventId, <<>>, ApplySetters(attrs))
  /\ UNCHANGED <<events, bookings, bkOp, connVars, pureVars>>

\* A document is loaded, some of its paths are assigned, and save() is called.
EventUpdate(w, slugs, defects) ==
  /\ evOp[w] = Idle
  /\ \A v \in 1..(w - 1) : evOp[v] # Idle
  /\ nWrites < MaxWrites
  /\ nWrites' = nWrites + 1
  /\ \E id \in DOMAIN events, changes \in UpdateInputs(slugs, defects) :
       EventSaveLocal(w, "update", id, events[id], Assign(events[id], changes))
  /\ UNCHANGED <<events, bookings, bkOp, connVars, pureVars>>

\* The database operation of save(): insertOne for a new document, updateOne
\* with $set of the modified paths otherwise. The unique index on slug is
\* enforced by the store within the operation.
EventCommit(w) ==
  LET op == evOp[w]
      merged == IF op.kind = "update" /\ op.id \in DOMAIN events
                  THEN [f \in EventFields |->
                          IF f \in op.set THEN op.doc[f] ELSE events[op.id][f]]
                  ELSE op.doc
      status == IF op.set = {} THEN "ok"
                ELSE IF op.kind = "update" /\ op.id \notin DOMAIN events
                  THEN "DocumentNotFound"
                ELSE IF "slug" \in op.set /\ SlugTaken(events, op.id, merged.slug)
                  THEN "DuplicateKey"
                ELSE "ok"
  IN /\ op # Idle
     /\ evOp' = [evOp EXCEPT ![w] = Idle]
     /\ last' = Outcome(IF op.kind = "insert" THEN "event.insert"
                         ELSE "event.update", status)
     /\ events' = IF status = "ok" /\ op.set # {}
                    THEN [i \in DOMAIN events \cup {op.id} |->
                            IF i = op.id THEN merged ELSE events[i]]
                    ELSE events
     /\ UNCHANGED <<bookings, nextEventId, nWrites, bkOp, connVars, pureVars>>

\* Event.deleteOne({ _id: id })
EventDelete(id) ==
  /\ id \in DOMAIN events
  /\ nWrites < MaxWrites
  /\ nWrites' = nWrites + 1
  /\ events' = [i \in DOMAIN events \ {id} |-> events[i]]
  /\ last' = Outcome("event.delete", "ok")
  /\ UNCHANGED <<bookings, nextEventId, evOp, bkOp, connVars, pureVars>>

\* ------------------------------------------------------------------------
\* Booking writes
\* ------------------------------------------------------------------------
\* The emails " a@b.c", "a@b", "ab.c" and " ".
EmailInputs ==
  {<<32, 97, 64, 98, 46, 99>>, <<97, 64, 98>>, <<97, 98, 46, 99>>, Blank}

\* new Booking({ eventId, email }).save() up to the Event.exists query:
\* schema validation of email, then the email check of the pre('save') hook.
\* A new call is given to the first caller that is idle.
BookingCreate(w) ==
  /\ bkOp[w] = Idle
  /\ \A v \in 1..(w - 1) : bkOp[v] # Idle
  /\ nWrites < MaxWrites
  /\ nWrites' = nWrites + 1
  /\ \E eventId \in EventIds, email \in EmailInputs :
       LET doc == [eventId |-> eventId, email |-> Trim(email)]
       IN IF ~nonEmptyString(doc.email) \/ ~isValidEmail(doc.email)
            THEN /\ last' = Outcome("booking.save", "ValidationError")
                 /\ UNCHANGED bkOp
          ELSE IF ~isValidEmail(doc.email)
            THEN /\ last' = Outcome("booking.save", "HookError")
                 /\ UNCHANGED bkOp
          ELSE /\ Len(bookings) + Cardinality({v \in BookingWriters : bkOp[v] # Idle})
                    < MaxBookings
               /\ bkOp' = [bkOp EXCEPT ![w] = [kind |-> "exists", doc |-> doc]]
               /\ last' = Outcome("booking.save", "pending")
  /\ UNCHANGED <<events, bookings, nextEventId, evOp, connVars, pureVars>>

\* Whether the hook goes on to the insert after the query answered.
ReferenceAccepted(eventExists) == eventExists

\* const eventExists = await Event.exists({ _id: this.eventId }); the hook
\* throws when the query finds no document.
BookingExists(w) ==
  /\ bkOp[w] # Idle
  /\ bkOp[w].kind = "exists"
  /\ IF ReferenceAccepted(bkOp[w].doc.eventId \in DOMAIN events)
       THEN /\ bkOp' = [bkOp EXCEPT ![w].kind = "insert"]
            /\ last' = Outcome("booking.save", "pending")
       ELSE /\ bkOp' = [bkOp EXCEPT ![w] = Idle]
            /\ last' = Outcome("booking.save", "ReferentialError")
  /\ UNCHANGED <<events, bookings, nextEventId, nWrites, evOp, connVars, pureVars>>

\* The insertOne of the booking, after the hook resolved.
BookingInsert(w) ==
  /\ bkOp[w] # Idle
  /\ bkOp[w].kind = "insert"
  /\ bookings' = Append(bookings, bkOp[w].doc)
  /\ bkOp' = [bkOp EXCEPT ![w] = Idle]
  /\ last' = Outcome("booking.save", "ok")
  /\ UNCHANGED <<events, nextEventId, nWrites, evOp, connVars, pureVars>>

StoreInit ==
  /\ ConnIdle
  /\ StoreIdle
  /\ PureIdle

StoreNext ==
  \/ EventCreate(1, {}, Defects)
  \/ EventUpdate(1, {}, Defects)
  \/ EventCommit(1)
  \/ \E id \in EventIds : EventDelete(id)
  \/ \E w \in BookingWriters : BookingCreate(w)
  \/ \E w \in BookingWriters : BookingExists(w)
  \/ \E w \in BookingWriters : BookingInsert(w)

SpecStore == StoreInit /\ [][StoreNext]_vars

EventsNext ==
  \/ \E w \in EventWriters : EventCreate(w, SlugInputs, {})
  \/ \E w \in EventWriters : EventUpdate(w, SlugInputs, {})
  \/ \E w \in EventWriters : EventCommit(w)
  \/ \E id \in EventIds : EventDelete(id)

SpecEvents == StoreInit /\ [][EventsNext]_vars

\* ------------------------------------------------------------------------
\* slugify and normalizeTime on their own
\* ------------------------------------------------------------------------
\* The characters of the titles: a, B, 1, space, carriage return, hyphen, !,
\* the capital letters U+03A9 (omega) and U+0130 (dotted I) and the space
\* U+2003; and of the times: 2, 6, colon and space.
SlugAlphabet == {97, 66, 49, 32, 13, 45, 33, 937, 304, 8195}
TimeAlphabet == {50, 54, 58, 32}

SlugInit ==
  /\ titleIn \in StringsUpTo(SlugAlphabet, MaxTitleLen)
  /\ slugOut = NotRun
  /\ timeIn = <<>>
  /\ timeOut = NotRun
  /\ ConnIdle
  /\ StoreIdle

\* The hook derives the slug of a title that passed the non-empty check.
DeriveSlug ==
  /\ slugOut = NotRun
  /\ nonEmptyString(titleIn)
  /\ slugOut' = [ok |-> TRUE, value |-> slugify(titleIn)]
  /\ UNCHANGED <<titleIn, timeIn, timeOut, connVars, storeVars>>

\* A title that fails the non-empty check is refused by validation.
RefuseTitle ==
  /\ slugOut = NotRun
  /\ ~nonEmptyString(titleIn)
  /\ slugOut' = [ok |-> FALSE, error |-> "title"]
  /\ UNCHANGED <<titleIn, timeIn, timeOut, connVars, storeVars>>

SlugNext == DeriveSlug \/ RefuseTitle

SpecSlug == SlugInit /\ [][SlugNext]_vars

TimeInit ==
  /\ timeIn \in StringsUpTo(TimeAlphabet, MaxTimeLen)
  /\ timeOut = NotRun
  /\ titleIn = <<>>
  /\ slugOut = NotRun
  /\ ConnIdle
  /\ StoreIdle

\* The hook normalises the time.
NormalizeTimeStep ==
  /\ timeOut = NotRun
  /\ timeOut' = normalizeTime(timeIn)
  /\ UNCHANGED <<titleIn, slugOut, timeIn, connVars, storeVars>>

TimeNext == NormalizeTimeStep

SpecTime == TimeInit /\ [][TimeNext]_vars

\* ------------------------------------------------------------------------
\* Properties of the connection manager
\* ------------------------------------------------------------------------
Pending == {a \in 1..Len(attempts) : attempts[a] = "pending"}
Established == {a \in 1..Len(attempts) : attempts[a] = "resolved"}

\* C1: as long as no attempt has failed, at most one mongoose.connect has been
\* initiated, every suspended caller waits on that single cached attempt, and
\* every caller that returned received the handle of that attempt.
C1_SingleAttemptWithoutFailure ==
  ~everFailed =>
    /\ Len(attempts) <= 1
    /\ Cardinality({c \in CallIds : callInitiated[c]}) <= 1
    /\ \A c \in CallIds : callPc[c] = "awaiting" => callAwait[c] = 1 /\ promise = 1
    /\ \A c \in CallIds : callPc[c] = "returned" => callResult[c] = Handle(1)
    /\ \A c \in CallIds : callPc[c] # "threw"

\* C1 witness: all callers have returned, several of them after waiting on the
\* one attempt, and nothing failed.
C1_Witness ==
  /\ ~everFailed
  /\ Len(attempts) = 1
  /\ \A c \in CallIds : callPc[c] = "returned"
  /\ Cardinality({c \in CallIds : callAwait[c] = 1}) >= 2

\* C2: at most one connection attempt is in flight and at most one connection
\* has been established, in every reachable state.
C2_AtMostOneAttemptAndHandle ==
  /\ Cardinality(Pending) <= 1
  /\ Cardinality(Established) <= 1

\* C3: the step in which a call handles the failure of its attempt throws that
\* attempt's error and leaves no handle cached and no attempt cached, so that
\* the next call starts a fresh attempt.
C3_FailureClearsCache ==
  [][\A c \in CallIds :
       (callPc[c] = "awaiting" /\ callPc'[c] = "threw") =>
          /\ callResult'[c] = callAwait[c]
          /\ attempts[callAwait[c]] = "rejected"
          /\ conn' = 0
          /\ promise' = 0]_vars

\* C4: once a call has returned handle h, the cache holds h from then on, and
\* a call that starts afterwards returns h at once and initiates no connection
\* attempt, whatever failures and retries came before.
C4_HandleIsStable ==
  /\ ReturnedHandles # {} => ReturnedHandles = {conn}
  /\ \A c \in CallIds :
       (callPc[c] # "idle" /\ callSeen[c] # {}) =>
          /\ callPc[c] = "returned"
          /\ ~callInitiated[c]
          /\ \A h \in callSeen[c] : callResult[c] = h

\* C4 witness: after a failed attempt and two retries that both connected, a
\* call that started after another had returned its handle has returned too.
C4_Witness ==
  /\ everFailed
  /\ Cardinality(Established) >= 2
  /\ \E c \in CallIds : callSeen[c] # {} /\ callPc[c] = "returned"

\* ------------------------------------------------------------------------
\* Properties of the Event and Booking writes
\* ------------------------------------------------------------------------
FailureStatuses == {"ValidationError", "HookError", "DuplicateKey",
                    "DocumentNotFound", "ReferentialError"}

\* The step is the database operation of writer w's save.
IsCommit(w) == evOp[w] # Idle /\ evOp'[w] = Idle

\* The database operation of writer w's save finds the slug of its document
\* held by another Event, the saved Event being new or still stored.
MeetsHeldSlug(w) ==
  /\ IsCommit(w)
  /\ evOp[w].kind = "insert" \/ evOp[w].id \in DOMAIN events
  /\ \E other \in DOMAIN events :
       other # evOp[w].id /\ events[other].slug = evOp[w].doc.slug

BadEventDoc(doc) ==
  \/ \E f \in TextFields : Len(Trim(doc[f])) = 0
  \/ \E f \in ListFields :
       doc[f] = <<>> \/ \E i \in DOMAIN doc[f] : Len(Trim(doc[f][i])) = 0
  \/ \A nd \in DateOutcomes(doc.date) : ~nd.ok
  \/ ~normalizeTime(doc.time).ok

\* C6: a Booking is inserted only while an Event with its eventId is stored,
\* and a save whose Event.exists query finds nothing fails with the
\* referential error without inserting.
C6_BookingReferencesExistingEvent ==
  [][/\ Len(bookings') > Len(bookings) =>
          bookings'[Len(bookings')].eventId \in DOMAIN events
     /\ \A w \in BookingWriters :
          (/\ bkOp[w] # Idle
           /\ bkOp[w].kind = "exists"
           /\ bkOp'[w] # bkOp[w]
           /\ bkOp[w].doc.eventId \notin DOMAIN events)
            => /\ last' = Outcome("booking.save", "ReferentialError")
               /\ bookings' = bookings]_vars

\* C9: a step that ends a write with an error, and the database operation of a
\* save whose document fails a check, leave both collections unchanged; a
\* Booking is inserted only with a well-formed email.
C9_FailedWriteChangesNothing ==
  [][/\ last'.status \in FailureStatuses =>
          events' = events /\ bookings' = bookings
     /\ \A w \in EventWriters :
          (IsCommit(w) /\ BadEventDoc(evOp[w].pre)) => events' = events
     /\ Len(bookings') > Len(bookings) =>
          isValidEmail(bookings'[Len(bookings')].email)]_vars

\* C9 witness: an update was refused for its duplicate slug while two Events
\* and a Booking are stored.
C9_Witness ==
  /\ last = Outcome("event.update", "DuplicateKey")
  /\ Cardinality(DOMAIN events) = 2
  /\ Len(bookings) = 1

\* What the hook does with the slug of a save: slugify(title) when the title
\* changed or no slug was set, the slug as it was otherwise.
HookSlugRule(op) ==
  op # Idle =>
    op.doc.slug = IF op.titleModified \/ op.pre.slug = <<>>
                    THEN slugify(op.pre.title)
                    ELSE op.pre.slug

\* C10 as stated: the hook of every save that starts follows HookSlugRule, and
\* the stored slug of an Event changes only in a save that changed the title
\* or started with no slug.
C10_SlugChangesOnlyWithTitle ==
  [][/\ \A w \in EventWriters : evOp'[w] # evOp[w] => HookSlugRule(evOp'[w])
     /\ \A id \in DOMAIN events \cap DOMAIN events' :
          events'[id].slug # events[id].slug =>
            \E w \in EventWriters :
              /\ IsCommit(w)
              /\ evOp[w].id = id
              /\ evOp[w].titleModified \/ evOp[w].pre.slug = <<>>
              /\ events'[id].slug = slugify(evOp[w].pre.title)]_vars

\* C10 amended: the hook of every save that starts follows HookSlugRule, and
\* the stored slug of an Event changes only in a save that changed the title,
\* started with no slug, or whose caller assigned the slug; it becomes the
\* slug the hook left.
C10_SlugChangesOnlyWithTitleOrAssignment ==
  [][/\ \A w \in EventWriters : evOp'[w] # evOp[w] => HookSlugRule(evOp'[w])
     /\ \A id \in DOMAIN events \cap DOMAIN events' :
          events'[id].slug # events[id].slug =>
            \E w \in EventWriters :
              /\ IsCommit(w)
              /\ evOp[w].id = id
              /\ \/ evOp[w].titleModified
                 \/ evOp[w].pre.slug = <<>>
                 \/ "slug" \in evOp[w].assigned
              /\ events'[id].slug = evOp[w].doc.slug]_vars

\* C10 witness: a title-changing update of an Event whose stored slug "zz"
\* was assigned by a caller in an earlier save is in progress, and its hook
\* has replaced the slug by slugify(title).
C10_Witness ==
  \E w \in EventWriters :
    /\ evOp[w] # Idle
    /\ evOp[w].kind = "update"
    /\ evOp[w].id \in DOMAIN events
    /\ events[evOp[w].id].slug = <<122, 122>>
    /\ "slug" \notin evOp[w].assigned
    /\ evOp[w].titleModified
    /\ "slug" \in evOp[w].set
    /\ evOp[w].doc.slug = slugify(evOp[w].doc.title)

\* ------------------------------------------------------------------------
\* Properties of slugify and normalizeTime
\* ------------------------------------------------------------------------

\* C7: the slug of a title that passed the non-empty check consists of
\* lowercase letters, digits and hyphens only, does not start or end with a
\* hyphen, and has no two adjacent hyphens.
C7_SlugWellFormed ==
  slugOut.ok =>
    LET slug == slugOut.value
    IN /\ \A i \in DOMAIN slug : IsLower(slug[i]) \/ IsDigit(slug[i]) \/ slug[i] = 45
       /\ slug # <<>> => slug[1] # 45 /\ slug[Len(slug)] # 45
       /\ \A i \in 1..(Len(slug) - 1) : ~(slug[i] = 45 /\ slug[i + 1] = 45)

\* The time the claim accepts: H:MM, HH:MM, H:MM:SS or HH:MM:SS with hour 0-23,
\* minute 0-59 and second 0-59.
WellFormedTime(t) ==
  LET n == Len(t)
      hl == IF n \in {4, 7} THEN 1 ELSE 2
  IN /\ n \in {4, 5, 7, 8}
     /\ AllDigits(SubSeq(t, 1, hl)) /\ Number(SubSeq(t, 1, hl)) <= 23
     /\ t[hl + 1] = 58
     /\ AllDigits(SubSeq(t, hl + 2, hl + 3))
     /\ Number(SubSeq(t, hl + 2, hl + 3)) <= 59
     /\ n \in {7, 8} =>
          /\ t[hl + 4] = 58
          /\ AllDigits(SubSeq(t, hl + 5, hl + 6))
          /\ Number(SubSeq(t, hl + 5, hl + 6)) <= 59

\* C8: normalizeTime accepts exactly the well-formed times, returning the
\* zero-padded hour, a colon and the minute, and rejects everything else.
C8_TimeAcceptedIffWellFormed ==
  timeOut # NotRun =>
    LET t == Trim(timeIn)
        hl == IF Len(t) \in {4, 7} THEN 1 ELSE 2
    IN /\ timeOut.ok <=> WellFormedTime(t)
       /\ timeOut.ok =>
            timeOut.value = PadStart2(Number(SubSeq(t, 1, hl))) \o <<58>>
                              \o SubSeq(t, hl + 2, hl + 3)

====
